---- MODULE Spec2Model ----
(***************************************************************************)
(* State-machine model of the proxy pool (ProxyManager), the admission     *)
(* gate (RateLimiter) and the batch engine (YouTubeViewSimulator) of       *)
(* src/bot.py, of LRUCache and the decorators retry_on_failure and         *)
(* rate_limit of src/utils.py, of the Config singleton of src/config.py    *)
(* and of NotificationManager and TaskScheduler of src/features.py.        *)
(*                                                                         *)
(* Addresses ("ip:port" strings) are the numbers 1..NumAddrs.  Python's    *)
(* None is NoTime (-1) in a timestamp field, and the empty sequence in a   *)
(* return value.  Time is counted in units of one validation interval      *)
(* (3600 s), so PROXY_VALIDATION_INTERVAL is 1; time.time() reads Epoch    *)
(* when the process starts, and 0 on the early clock of InitValidated.     *)
(***************************************************************************)
EXTENDS Integers, Sequences, FiniteSets, TLC

\* ---------------------------------------------------------------- bounds
NumThreads == 2      \* threads calling into the pool
NumAddrs == 2        \* distinct proxy addresses the sources can list
MaxCand == 3         \* longest list scrape_proxies returns
MaxTicks == 1        \* how far the clock advances over a run
MaxFail == 5         \* mark_failure is not called on a pool holding this fail_count
MaxSucc == 2         \* mark_success is not called on a pool holding this success_count
Epoch == 2           \* time.time() when the process starts
NumUsers == 2        \* requesters
MaxCalls == 5        \* check_rate_limit calls per requester
MaxMinutes == 2      \* how far datetime.now() advances, in minutes
MaxStored == 5       \* highest count in a row left by an earlier run
MaxViews == 2        \* largest view_count of a batch
MAX_WORKERS == 1     \* read from the environment (default 75)
THREAD_POOL_TIMEOUT == 2   \* read from the environment (default 45 s), in ticks
MIN_VIEW_TIME == 1   \* read from the environment (default 5 s), in ticks
MAX_VIEW_TIME == 3   \* read from the environment (default 3600 s), in ticks
NumKeys == 3         \* distinct keys given to the LRUCache
NumValues == 2       \* distinct values given to the LRUCache
MaxLruOps == 5       \* set, get and clear calls made on the LRUCache
MaxLruTime == 2      \* how far time.time() advances over the LRUCache calls
max_size == 2        \* LRUCache(max_size=...), a constructor argument
expiry_time == 1     \* LRUCache(expiry_time=...), a constructor argument
MaxConstructions == 2   \* Config() constructions per thread
MaxRetries == 2      \* largest max_retries given to retry_on_failure
MaxBackoff == 2      \* largest backoff given to retry_on_failure
calls == 1           \* rate_limit(calls=...), a decorator argument
period == 2          \* rate_limit(period=...), a decorator argument, in ticks
MaxLimitTime == 4    \* how far time.time() advances over the rate-limited calls
MaxLimitCalls == 3   \* calls of the rate-limited wrapper
max_notifications == 2   \* self.max_notifications (100 in the source)
MaxSends == 4        \* send_notification calls
NumTasks == 2        \* distinct task ids given to add_task
MaxInterval == 2     \* largest interval given to add_task, in seconds
MaxSchedTime == 3    \* how far time.time() advances over the scheduler's run

\* ------------------------------------------------------ program constants
PROXY_VALIDATION_INTERVAL == 1
MAX_PROXY_FAILURES == 5
\* PROXY_POOL_SIZE is read from the environment (default 150); 2 lets a
\* scrape of MaxCand candidates overfill the pool.
PROXY_POOL_SIZE == 2
\* The three ceilings are read from the environment (defaults 15, 150, 1000).
RATE_LIMIT_VISITS_PER_MINUTE == 2
RATE_LIMIT_VISITS_PER_HOUR == 3
RATE_LIMIT_VISITS_PER_DAY == 4
\* timedelta(minutes=1), line 631, in the minutes datetime.now() is counted in.
MinuteWindow == 1
\* {11} in the patterns of extract_video_id, lines 698-700.
VIDEO_ID_LEN == 11
\* The three test_urls of validate_proxy, lines 295-299.
NumProbes == 3

Threads == 1 .. NumThreads
Addrs == 1 .. NumAddrs
Users == 1 .. NumUsers
NoThread == 0
NoTime == 0 - 1
NoAddr == 0
Keys == 1 .. NumKeys
Values == 1 .. NumValues
NoKey == 0
Objects == 1 .. NumThreads
NoObject == 0
TaskIds == 1 .. NumTasks

VARIABLES
    proxies,          \* self.proxies: list of entry dicts
    failed_proxies,   \* self.failed_proxies: set of addresses
    last_validation,  \* self.last_validation
    lock,             \* self.lock: the thread holding it, or NoThread
    now,              \* the latest value time.time() returned
    started,          \* startup() has completed
    pc,               \* per thread: position
    op,               \* per thread: the method being run
    caller,           \* per thread: who called refresh_proxies
    arg,              \* per thread: proxy_str argument
    pre,              \* per thread: the pool as found when the lock was acquired
    idx,              \* per thread: loop index
    tmp,              \* per thread: value read by  proxy['fail_count'] += 1
    new_proxies,      \* per thread: list scraped by refresh_proxies
    probe,            \* per thread: what validate_proxy answered for each candidate so far
    valid_proxies,    \* per thread: list built by refresh_proxies
    ret,              \* per thread: value the call returns (<<>> is None)
    script,           \* per thread: the calls its client still makes
    scenario,         \* the pool and the scripts the run began with
    rate_limits,      \* table rate_limits: per user_id its row of counters, or NoRow
    rl_lock,          \* RateLimiter.lock: the thread holding it, or NoThread
    rl_pc,            \* per thread: position in check_rate_limit
    rl_user,          \* per thread: user_id argument
    rl_row,           \* per thread: row fetched by the SELECT
    rl_ret,           \* per thread: (allowed, message) returned, <<>> before
    rl_calls,         \* per user_id: check_rate_limit calls made so far
    rl_now,           \* the latest value datetime.now() returned, in minutes
    rl_at,            \* per thread: now of line 630
    rl_stamp,         \* per user_id: now of the call that last wrote the row, or NoTime
    b_pc,             \* simulate_views_batch: position of the calling thread
    b_url,            \* video_url argument
    b_count,          \* view_count argument
    b_dwell,          \* view_time argument
    futures,          \* futures: per submitted task "queued", "running" or "done"
    outcome,          \* per task: what simulate_view returned (<<>> before it has)
    yielded,          \* tasks as_completed has yielded
    results,          \* the results dict
    b_clock,          \* ticks since as_completed was called
    b_sent,           \* requests.get calls made to the target by simulate_view
    w_pc,             \* per thread: position in simulate_view
    w_task,           \* per thread: the task it runs
    w_proxy,          \* per thread: proxy_info['proxy'], or NoAddr
    w_res,            \* per thread: (success, message) it is about to return
    w_sleep,          \* per thread: ticks time.sleep still lasts
    lru_cache,        \* LRUCache.cache: the OrderedDict as its list of items, oldest first
    lru_timestamps,   \* LRUCache.timestamps: per key, NoTime when it has none
    lru_clock,        \* the latest value time.time() returned to the LRUCache
    lru_op,           \* the last LRUCache call: its name, key, result and evicted key
    lru_ops,          \* LRUCache calls made so far
    lru_seen,         \* per key: the latest set (value, time), the call that last
                      \* used it, and how its entry went since ("no" while kept)
    cfg_instance,     \* Config._instance: an object, or NoObject for None
    cfg_initialized,  \* per object: _initialized ("unset" while it has no such attribute)
    cfg_loads,        \* per object: runs of load_from_file
    cfg_made,         \* objects created by super().__new__
    cfg_pc,           \* per thread: position in Config()
    cfg_self,         \* per thread: what __new__ returned, self of __init__
    cfg_got,          \* per thread: the objects its constructions returned
    cfg_calls,        \* per thread: constructions begun
    vp_proxy,         \* validate_proxy: its proxy argument, NoAddr when not called
    vp_answers,       \* what each test URL answers through the candidate
    vp_i,             \* position in  for url in test_urls
    vp_sent,          \* requests.get calls made
    vp_ret,           \* value returned, <<>> before
    rt_pc,            \* retry_on_failure's wrapper: "idle", "loop" or "done"
    rt_in,            \* max_retries, backoff, and how func ends at each invocation
    rt_attempt,       \* attempt of  for attempt in range(max_retries + 1)
    rt_delay,         \* current_delay
    rt_last,          \* last_exception: the invocation that raised it, 0 for None
    rt_calls,         \* invocations of func made
    rt_ret,           \* how the wrapper ended: returned or raised, and of which invocation
    rd_call_times,    \* rate_limit's call_times list
    rd_lock,          \* its lock: the thread holding it, or NoThread
    rd_pc,            \* per thread: position in the wrapper
    rd_now,           \* per thread: now of line 145
    rd_clock,         \* the latest value of time.time()
    rd_starts,        \* times at which func was started
    rd_calls,         \* wrapper calls made so far
    nm_notifications, \* NotificationManager.notifications: per user its list
    nm_sent,          \* per user: the notifications sent since its list was last cleared
    nm_serial,        \* send_notification calls made so far
    ts_tasks,         \* TaskScheduler.tasks: per task id its dict, or NoTask
    ts_clock,         \* the latest value of time.time()
    ts_pc,            \* _run_scheduler: "loop" or "sleep"
    ts_reg,           \* per task id: when add_task registered it, NoTime when not
    ts_runs           \* per task id: when its callback was started since, latest last

poolVars == <<proxies, failed_proxies, last_validation, lock, now, started>>
threadVars == <<pc, op, caller, arg, pre, idx, tmp, new_proxies, probe, valid_proxies, ret>>
clientVars == <<script, scenario>>
rateVars == <<rate_limits, rl_lock, rl_pc, rl_user, rl_row, rl_ret, rl_calls,
             rl_now, rl_at, rl_stamp>>
batchVars == <<b_pc, b_url, b_count, b_dwell, futures, outcome, yielded, results,
              b_clock, b_sent>>
workerVars == <<w_pc, w_task, w_proxy, w_res, w_sleep>>
lruVars == <<lru_cache, lru_timestamps, lru_clock, lru_op, lru_ops, lru_seen>>
cfgVars == <<cfg_instance, cfg_initialized, cfg_loads, cfg_made, cfg_pc, cfg_self,
            cfg_got, cfg_calls>>
probeVars == <<vp_proxy, vp_answers, vp_i, vp_sent, vp_ret>>
retryVars == <<rt_pc, rt_in, rt_attempt, rt_delay, rt_last, rt_calls, rt_ret>>
limitVars == <<rd_call_times, rd_lock, rd_pc, rd_now, rd_clock, rd_starts, rd_calls>>
notifyVars == <<nm_notifications, nm_sent, nm_serial>>
schedVars == <<ts_tasks, ts_clock, ts_pc, ts_reg, ts_runs>>
toolVars == <<probeVars, retryVars, limitVars, notifyVars, schedVars>>
utilVars == <<lruVars, cfgVars, toolVars>>
coreVars == <<poolVars, threadVars, clientVars, rateVars, batchVars, workerVars,
             lruVars, cfgVars>>
vars == <<poolVars, threadVars, clientVars, rateVars, batchVars, workerVars, utilVars>>

\* What an action of one component leaves alone in the others.
outsidePool == <<rateVars, batchVars, workerVars, utilVars>>
outsideRate == <<poolVars, threadVars, clientVars, batchVars, workerVars, utilVars>>

\* ------------------------------------------------------------- helpers
\* An entry dict.  added_at, stored once by refresh_proxies and read by no
\* code, is left out.
Entry(a, s, f, u) ==
    [proxy |-> a, success_count |-> s, fail_count |-> f, last_used |-> u]

\* The dict appended by refresh_proxies for a validated candidate.
NewEntry(a) == Entry(a, 0, 0, NoTime)

\* What pre holds: self.proxies and self.failed_proxies.
Found(ps, fs) == [proxies |-> ps, failed |-> fs]

NoPre == Found(<<>>, {})

\* A client that may make any call, any number of times.
Free == <<"any", NoAddr>>

\* 'proxies' lists PROXY_CACHE_FILE can hold when the process starts (<<>>
\* when the file is absent, unreadable or empty): save_to_cache of an earlier
\* run dumped self.proxies with its counts.  The file is read once, by
\* startup(), and only written afterwards, so no variable holds it.
CacheFiles ==
    LET entries == {Entry(a, 0, f, NoTime) : a \in Addrs, f \in 0 .. MaxFail}
    IN UNION {[1 .. n -> entries] : n \in 0 .. PROXY_POOL_SIZE}

\* Lists scrape_proxies can return.
CandLists == UNION {[1 .. n -> Addrs] : n \in 0 .. MaxCand}

\* The with self.lock missing: a caller never waits.
LockNotTaken(t) == TRUE

\* threading.Lock: acquirable only when nobody holds it (not reentrant).
LockAvailable(t) == lock = NoThread

\* Values time.time() can return: it does not run backwards.
Clock == now .. Epoch + MaxTicks

\* time.time() - self.last_validation > self.validation_interval
Stale(time) == time - last_validation > PROXY_VALIDATION_INTERVAL

\* The scan with <= for <: the last entry of least key.
RECURSIVE MinScanLast(_, _, _)
MinScanLast(ps, i, best) ==
    IF i > Len(ps) THEN best
    ELSE IF ps[i].fail_count <= ps[best].fail_count THEN MinScanLast(ps, i + 1, i)
    ELSE MinScanLast(ps, i + 1, best)

\* min(ps, key=lambda p: p['fail_count']): index of the first entry no later
\* entry beats with a strictly smaller key.
RECURSIVE MinScan(_, _, _)
MinScan(ps, i, best) ==
    IF i > Len(ps) THEN best
    ELSE IF ps[i].fail_count < ps[best].fail_count THEN MinScan(ps, i + 1, i)
    ELSE MinScan(ps, i + 1, best)

MinIndex(ps) == MinScan(ps, 2, 1)

\* The decrement without its floor.
OnSuccessNoFloor(e) ==
    [e EXCEPT !.success_count = @ + 1, !.fail_count = @ - 1]

\* A success that clears the failures outright.
OnSuccessReset(e) ==
    [e EXCEPT !.success_count = @ + 1, !.fail_count = 0]

\* proxy['success_count'] += 1; proxy['fail_count'] = max(0, proxy['fail_count'] - 1)
OnSuccess(e) ==
    [e EXCEPT !.success_count = @ + 1,
              !.fail_count = IF @ - 1 > 0 THEN @ - 1 ELSE 0]

\* proxy['fail_count'] += 1, as the store of the value read before plus one.
OnFailure(e, read) == [e EXCEPT !.fail_count = read + 1]

\* if proxy['fail_count'] >= MAX_PROXY_FAILURES: self.failed_proxies.add(proxy_str)
FailedAfter(fs, e, a) ==
    IF e.fail_count >= MAX_PROXY_FAILURES THEN fs \cup {a} ELSE fs

\* if proxy not in self.failed_proxies and self.validate_proxy(proxy)
Accepted(fs, a, answer) == a \notin fs /\ answer

\* The break test with > for >=.
PoolFullLate(vs) == Len(vs) > PROXY_POOL_SIZE

\* if len(valid_proxies) >= PROXY_POOL_SIZE: break
PoolFull(vs) == Len(vs) >= PROXY_POOL_SIZE

\* A client may call method o with argument a: it is between calls, the bot
\* has started, and its script allows the call.
MayCall(t, o, a) ==
    /\ pc[t] = "idle"
    /\ started
    /\ script[t] # <<>>
    /\ Head(script[t]) \in {Free, <<o, a>>}

Called(t) == [script EXCEPT ![t] = IF Head(@) = Free THEN @ ELSE Tail(@)]

\* ---------------------------------------------------------------- Init
ThreadInit ==
    /\ pc = [t \in Threads |-> "idle"]
    /\ op = [t \in Threads |-> "none"]
    /\ caller = [t \in Threads |-> "none"]
    /\ arg = [t \in Threads |-> NoAddr]
    /\ pre = [t \in Threads |-> NoPre]
    /\ idx = [t \in Threads |-> 0]
    /\ tmp = [t \in Threads |-> 0]
    /\ new_proxies = [t \in Threads |-> <<>>]
    /\ probe = [t \in Threads |-> <<>>]
    /\ valid_proxies = [t \in Threads |-> <<>>]
    /\ ret = [t \in Threads |-> <<>>]

\* A row of table rate_limits (the three reset columns are never written or
\* read by the code and are left out).
Row(m, h, d) == [minute_count |-> m, hour_count |-> h, day_count |-> d]

\* cursor.fetchone() returning None: the user has no row.
NoRow == Row(0 - 1, 0 - 1, 0 - 1)

\* A URL as extract_video_id sees it: which of the patterns' prefixes it
\* holds ("none" when it holds none) and how many id characters follow.
Url(form, idlen) == [form |-> form, idlen |-> idlen]

NoUrl == Url("none", 0)

\* The results dict of lines 760-765.
Results(n, s, f, e) == [total |-> n, successful |-> s, failed |-> f, errors |-> e]

\* No batch has been started: YouTubeViewSimulator.__init__.
BatchInit ==
    /\ b_pc = "idle"
    /\ b_url = NoUrl
    /\ b_count = 0
    /\ b_dwell = 0
    /\ futures = <<>>
    /\ outcome = <<>>
    /\ yielded = {}
    /\ results = Results(0, 0, 0, <<>>)
    /\ b_clock = 0
    /\ b_sent = 0
    /\ w_pc = [t \in Threads |-> "free"]
    /\ w_task = [t \in Threads |-> 0]
    /\ w_proxy = [t \in Threads |-> NoAddr]
    /\ w_res = [t \in Threads |-> <<>>]
    /\ w_sleep = [t \in Threads |-> 0]

\* An item of the OrderedDict.
Item(k, v) == [key |-> k, value |-> v]

\* What lru_op holds: ret is <<>> for None; oldest is the oldest_key a set
\* deleted, or NoKey.
Call(name, k, r, e) == [name |-> name, key |-> k, ret |-> r, oldest |-> e]

\* What lru_seen holds of a key: value and at of the latest set(key, value)
\* (<<>> when there was none), used the number of the latest call that set
\* it or got it, gone how its entry left the cache since, if it did.
Seen(v, at, used, gone) == [value |-> v, at |-> at, used |-> used, gone |-> gone]

\* LRUCache.__init__ with nothing stored, and class Config before any
\* construction.
UtilInit ==
    /\ lru_cache = <<>>
    /\ lru_timestamps = [k \in Keys |-> NoTime]
    /\ lru_clock = 0
    /\ lru_op = Call("none", NoKey, <<>>, NoKey)
    /\ lru_ops = 0
    /\ lru_seen = [k \in Keys |-> Seen(<<>>, NoTime, 0, "no")]
    /\ cfg_instance = NoObject
    /\ cfg_initialized = [o \in Objects |-> "unset"]
    /\ cfg_loads = [o \in Objects |-> 0]
    /\ cfg_made = 0
    /\ cfg_pc = [t \in Threads |-> "idle"]
    /\ cfg_self = [t \in Threads |-> NoObject]
    /\ cfg_got = [t \in Threads |-> <<>>]
    /\ cfg_calls = [t \in Threads |-> 0]

\* What rt_in holds: the decorator's max_retries and backoff, and how each
\* invocation of func ends.
RetryInput(r, b, raises) == [max_retries |-> r, backoff |-> b, raises |-> raises]

\* A dict of NotificationManager.notifications: its id, which send made it,
\* and its read flag (title, message, type, data and timestamp are stored
\* once and never read by the class).
Notification(id, serial, read) == [id |-> id, serial |-> serial, read |-> read]

\* A dict of TaskScheduler.tasks (callback, args and kwargs stand for
\* themselves; enabled is True from add_task on and last_run is only written).
Task(interval, next_run) == [interval |-> interval, next_run |-> next_run]

NoTask == Task(0, NoTime)

\* validate_proxy not called, the decorated functions not called, and
\* NotificationManager.__init__ and TaskScheduler.__init__, whose start()
\* has the loop running.
ToolInit ==
    /\ vp_proxy = NoAddr
    /\ vp_answers = <<>>
    /\ vp_i = 0
    /\ vp_sent = 0
    /\ vp_ret = <<>>
    /\ rt_pc = "idle"
    /\ rt_in = RetryInput(0, 0, <<>>)
    /\ rt_attempt = 0
    /\ rt_delay = 0
    /\ rt_last = 0
    /\ rt_calls = 0
    /\ rt_ret = <<>>
    /\ rd_call_times = <<>>
    /\ rd_lock = NoThread
    /\ rd_pc = [t \in Threads |-> "idle"]
    /\ rd_now = [t \in Threads |-> 0]
    /\ rd_clock = 0
    /\ rd_starts = <<>>
    /\ rd_calls = 0
    /\ nm_notifications = [u \in Users |-> <<>>]
    /\ nm_sent = [u \in Users |-> <<>>]
    /\ nm_serial = 0
    /\ ts_tasks = [id \in TaskIds |-> NoTask]
    /\ ts_clock = 0
    /\ ts_pc = "loop"
    /\ ts_reg = [id \in TaskIds |-> NoTime]
    /\ ts_runs = [id \in TaskIds |-> <<>>]

\* A fresh database (init_database) and a RateLimiter nobody has called.
RateInit ==
    /\ rate_limits = [u \in Users |-> NoRow]
    /\ rl_lock = NoThread
    /\ rl_pc = [t \in Threads |-> "idle"]
    /\ rl_user = [t \in Threads |-> 0]
    /\ rl_row = [t \in Threads |-> NoRow]
    /\ rl_ret = [t \in Threads |-> <<>>]
    /\ rl_calls = [u \in Users |-> 0]
    /\ rl_now = 0
    /\ rl_at = [t \in Threads |-> 0]
    /\ rl_stamp = [u \in Users |-> NoTime]

\* ProxyManager.__init__, before startup() runs.
Init ==
    /\ proxies = <<>>
    /\ failed_proxies = {}
    /\ last_validation = 0
    /\ lock = NoThread
    /\ now = Epoch
    /\ started = FALSE
    /\ ThreadInit
    /\ script = [t \in Threads |-> <<Free>>]
    /\ scenario = [pool |-> <<>>, script |-> script]
    /\ RateInit
    /\ BatchInit
    /\ UtilInit
    /\ ToolInit

\* A started manager, its pool loaded from the cache file, on a machine whose
\* clock reads no more than one validation interval: time.time() minus the
\* constructor's last_validation of 0 does not exceed validation_interval,
\* the one case in which get_random_proxy finds the pool not stale.
InitValidated ==
    /\ proxies \in CacheFiles
    /\ failed_proxies = {}
    /\ last_validation = 0
    /\ lock = NoThread
    /\ now = 0
    /\ started = TRUE
    /\ ThreadInit
    /\ script = [t \in Threads |-> <<Free>>]
    /\ scenario = [pool |-> <<>>, script |-> script]
    /\ RateInit
    /\ BatchInit
    /\ UtilInit
    /\ ToolInit

\* Client scripts: every thread reports one failure of the same address; or
\* thread 1 reports a success and then a failure of one address while the
\* other threads make no call.
Scripts ==
    {[t \in Threads |-> <<<<"mark_failure", a>>>>] : a \in Addrs}
    \cup {[t \in Threads |-> IF t = 1 THEN <<<<"mark_success", a>>, <<"mark_failure", a>>>>
                                     ELSE <<>>] : a \in Addrs}

\* A started manager, its pool loaded from the cache file, whose clients
\* run one of the scripts.
InitScripts ==
    /\ proxies \in CacheFiles
    /\ failed_proxies = {}
    /\ last_validation = 0
    /\ lock = NoThread
    /\ now = Epoch
    /\ started = TRUE
    /\ ThreadInit
    /\ script \in Scripts
    /\ scenario = [pool |-> proxies, script |-> script]
    /\ RateInit
    /\ BatchInit
    /\ UtilInit
    /\ ToolInit

\* ------------------------------------------------------------- actions
\* A load that reports success whatever it read.
LoadedAlways(ps) == TRUE

\* return len(self.proxies) > 0, line 255; an absent, unreadable or corrupt
\* file leaves the constructor's empty list and returns False at line 258.
Loaded(ps) == Len(ps) > 0

\* startup(): load_from_cache(); when it returns False, refresh_proxies().
\* Run by thread 1 before any handler runs.
Startup ==
    /\ ~started
    /\ pc[1] = "idle"
    /\ \E cache \in CacheFiles :
         /\ proxies' = cache
         /\ started' = Loaded(cache)
         /\ pc' = IF Loaded(cache) THEN pc ELSE [pc EXCEPT ![1] = "startup_refresh"]
    /\ UNCHANGED <<failed_proxies, last_validation, lock, now>>
    /\ UNCHANGED <<op, caller, arg, pre, idx, tmp, new_proxies, probe, valid_proxies, ret>>
    /\ UNCHANGED <<script, scenario>>
    /\ UNCHANGED outsidePool

\* refresh_proxies, line 323: with self.lock.  Called from a handler, from
\* startup, or from get_random_proxy on a stale pool.
RefreshProxies(t) ==
    /\ \/ MayCall(t, "refresh_proxies", NoAddr)
       \/ pc[t] \in {"startup_refresh", "grp_refresh"}
    /\ LockAvailable(t)
    /\ lock' = t
    /\ caller' = [caller EXCEPT ![t] = pc[t]]
    /\ op' = [op EXCEPT ![t] = IF pc[t] = "idle" THEN "refresh_proxies" ELSE @]
    /\ pre' = [pre EXCEPT ![t] = IF pc[t] = "idle" THEN Found(proxies, failed_proxies) ELSE @]
    /\ script' = IF pc[t] = "idle" THEN Called(t) ELSE script
    /\ pc' = [pc EXCEPT ![t] = "rf_scrape"]
    /\ UNCHANGED <<proxies, failed_proxies, last_validation, now, started>>
    /\ UNCHANGED <<arg, idx, tmp, new_proxies, probe, valid_proxies, ret, scenario>>
    /\ UNCHANGED outsidePool

\* new_proxies = self.scrape_proxies(); valid_proxies = []
RfScrape(t) ==
    /\ pc[t] = "rf_scrape"
    /\ \E c \in CandLists :
         /\ new_proxies' = [new_proxies EXCEPT ![t] = c]
         /\ pc' = [pc EXCEPT ![t] = IF c = <<>> THEN "rf_swap" ELSE "rf_validate"]
    /\ valid_proxies' = [valid_proxies EXCEPT ![t] = <<>>]
    /\ probe' = [probe EXCEPT ![t] = <<>>]
    /\ idx' = [idx EXCEPT ![t] = 1]
    /\ UNCHANGED <<poolVars, op, caller, arg, pre, tmp, ret, script, scenario>>
    /\ UNCHANGED outsidePool

\* One iteration of  for proxy in new_proxies  (lines 329-339).  answer is
\* what validate_proxy returns for the candidate; it is not called (and
\* FALSE is noted) for a candidate in failed_proxies.
RfValidate(t) ==
    /\ pc[t] = "rf_validate"
    /\ \E answer \in BOOLEAN :
         LET a == new_proxies[t][idx[t]]
             accepted == Accepted(failed_proxies, a, answer)
             vs == IF accepted THEN Append(valid_proxies[t], NewEntry(a))
                   ELSE valid_proxies[t]
         IN /\ a \in failed_proxies => ~answer
            /\ probe' = [probe EXCEPT ![t] = Append(@, answer)]
            /\ valid_proxies' = [valid_proxies EXCEPT ![t] = vs]
            /\ pc' = [pc EXCEPT ![t] =
                        IF (accepted /\ PoolFull(vs)) \/ idx[t] >= Len(new_proxies[t])
                        THEN "rf_swap" ELSE "rf_validate"]
    /\ idx' = [idx EXCEPT ![t] = @ + 1]
    /\ UNCHANGED <<poolVars, op, caller, arg, pre, tmp, new_proxies, ret, script, scenario>>
    /\ UNCHANGED outsidePool

\* self.proxies = valid_proxies; self.save_to_cache() rewrites the cache file.
RfSwap(t) ==
    /\ pc[t] = "rf_swap"
    /\ proxies' = valid_proxies[t]
    /\ ret' = [ret EXCEPT ![t] = <<Len(valid_proxies[t])>>]
    /\ pc' = [pc EXCEPT ![t] = "rf_return"]
    /\ UNCHANGED <<failed_proxies, last_validation, lock, now, started>>
    /\ UNCHANGED <<op, caller, arg, pre, idx, tmp, new_proxies, probe, valid_proxies>>
    /\ UNCHANGED <<script, scenario>>
    /\ UNCHANGED outsidePool

\* return len(self.proxies), leaving the with block.  Control goes back to
\* the handler, to startup(), or to get_random_proxy at line 352.
RfReturn(t) ==
    /\ pc[t] = "rf_return"
    /\ lock' = NoThread
    /\ started' = (started \/ caller[t] = "startup_refresh")
    /\ pc' = [pc EXCEPT ![t] = IF caller[t] = "grp_refresh" THEN "grp_resume" ELSE "idle"]
    /\ op' = [op EXCEPT ![t] = IF caller[t] = "grp_refresh" THEN @ ELSE "none"]
    /\ pre' = [pre EXCEPT ![t] = IF caller[t] = "grp_refresh" THEN @ ELSE NoPre]
    /\ caller' = [caller EXCEPT ![t] = "none"]
    /\ ret' = [ret EXCEPT ![t] = <<>>]
    /\ new_proxies' = [new_proxies EXCEPT ![t] = <<>>]
    /\ probe' = [probe EXCEPT ![t] = <<>>]
    /\ valid_proxies' = [valid_proxies EXCEPT ![t] = <<>>]
    /\ idx' = [idx EXCEPT ![t] = 0]
    /\ UNCHANGED <<proxies, failed_proxies, last_validation, now>>
    /\ UNCHANGED <<arg, tmp, script, scenario>>
    /\ UNCHANGED outsidePool

\* get_random_proxy, line 349: with self.lock
GetRandomProxy(t) ==
    /\ MayCall(t, "get_random_proxy", NoAddr)
    /\ LockAvailable(t)
    /\ lock' = t
    /\ op' = [op EXCEPT ![t] = "get_random_proxy"]
    /\ pre' = [pre EXCEPT ![t] = Found(proxies, failed_proxies)]
    /\ pc' = [pc EXCEPT ![t] = "grp_check"]
    /\ script' = Called(t)
    /\ UNCHANGED <<proxies, failed_proxies, last_validation, now, started>>
    /\ UNCHANGED <<caller, arg, idx, tmp, new_proxies, probe, valid_proxies, ret, scenario>>
    /\ UNCHANGED outsidePool

\* Lines 350-359; t1 and t2 are what time.time() returns at line 350 and
\* afterwards.  On a stale pool the thread calls refresh_proxies while it
\* holds the lock; back from it (grp_resume) it stores last_validation and
\* goes on to the selection.
GrpBody(t) ==
    /\ pc[t] \in {"grp_check", "grp_resume"}
    /\ \E t1 \in Clock : \E t2 \in t1 .. Epoch + MaxTicks :
         IF pc[t] = "grp_check" /\ Stale(t1)
         THEN /\ t2 = t1
              /\ now' = t1
              /\ pc' = [pc EXCEPT ![t] = "grp_refresh"]
              /\ UNCHANGED <<proxies, last_validation, ret, idx>>
         ELSE /\ now' = t2
              /\ last_validation' = IF pc[t] = "grp_resume" THEN t1 ELSE last_validation
              /\ pc' = [pc EXCEPT ![t] = "exit"]
              /\ IF proxies = <<>>
                 THEN /\ t2 = t1
                      /\ ret' = [ret EXCEPT ![t] = <<>>]
                      /\ UNCHANGED <<proxies, idx>>
                 ELSE LET i == MinIndex(proxies)
                          chosen == [proxies[i] EXCEPT !.last_used = t2]
                      IN /\ proxies' = [proxies EXCEPT ![i] = chosen]
                         /\ ret' = [ret EXCEPT ![t] = <<chosen>>]
                         /\ idx' = [idx EXCEPT ![t] = i]
    /\ UNCHANGED <<failed_proxies, lock, started>>
    /\ UNCHANGED <<op, caller, arg, pre, tmp, new_proxies, probe, valid_proxies>>
    /\ UNCHANGED <<script, scenario>>
    /\ UNCHANGED outsidePool

\* mark_success, line 363: with self.lock
MarkSuccess(t, a) ==
    /\ MayCall(t, "mark_success", a)
    /\ LockAvailable(t)
    /\ \A i \in DOMAIN proxies : proxies[i].success_count < MaxSucc
    /\ lock' = t
    /\ op' = [op EXCEPT ![t] = "mark_success"]
    /\ arg' = [arg EXCEPT ![t] = a]
    /\ pre' = [pre EXCEPT ![t] = Found(proxies, failed_proxies)]
    /\ idx' = [idx EXCEPT ![t] = 1]
    /\ pc' = [pc EXCEPT ![t] = IF proxies = <<>> THEN "exit" ELSE "ms_loop"]
    /\ script' = Called(t)
    /\ UNCHANGED <<proxies, failed_proxies, last_validation, now, started>>
    /\ UNCHANGED <<caller, tmp, new_proxies, probe, valid_proxies, ret, scenario>>
    /\ UNCHANGED outsidePool

\* One iteration of  for proxy in self.proxies  (lines 364-367).
MsLoop(t) ==
    /\ pc[t] = "ms_loop"
    /\ proxies' = IF idx[t] <= Len(proxies) /\ proxies[idx[t]].proxy = arg[t]
                  THEN [proxies EXCEPT ![idx[t]] = OnSuccess(@)]
                  ELSE proxies
    /\ idx' = [idx EXCEPT ![t] = @ + 1]
    /\ pc' = [pc EXCEPT ![t] = IF idx[t] >= Len(proxies) THEN "exit" ELSE "ms_loop"]
    /\ UNCHANGED <<failed_proxies, last_validation, lock, now, started>>
    /\ UNCHANGED <<op, caller, arg, pre, tmp, new_proxies, probe, valid_proxies, ret>>
    /\ UNCHANGED <<script, scenario>>
    /\ UNCHANGED outsidePool

\* mark_failure, line 371: with self.lock
MarkFailure(t, a) ==
    /\ MayCall(t, "mark_failure", a)
    /\ LockAvailable(t)
    /\ \A i \in DOMAIN proxies : proxies[i].fail_count < MaxFail
    /\ lock' = t
    /\ op' = [op EXCEPT ![t] = "mark_failure"]
    /\ arg' = [arg EXCEPT ![t] = a]
    /\ pre' = [pre EXCEPT ![t] = Found(proxies, failed_proxies)]
    /\ idx' = [idx EXCEPT ![t] = 1]
    /\ pc' = [pc EXCEPT ![t] = IF proxies = <<>> THEN "exit" ELSE "mf_read"]
    /\ script' = Called(t)
    /\ UNCHANGED <<proxies, failed_proxies, last_validation, now, started>>
    /\ UNCHANGED <<caller, tmp, new_proxies, probe, valid_proxies, ret, scenario>>
    /\ UNCHANGED outsidePool

\* for proxy in self.proxies: if proxy['proxy'] == proxy_str: read the
\* fail_count that  += 1  will add to (lines 372-374).
MfRead(t) ==
    /\ pc[t] = "mf_read"
    /\ IF idx[t] <= Len(proxies) /\ proxies[idx[t]].proxy = arg[t]
       THEN /\ tmp' = [tmp EXCEPT ![t] = proxies[idx[t]].fail_count]
            /\ pc' = [pc EXCEPT ![t] = "mf_write"]
            /\ UNCHANGED idx
       ELSE /\ idx' = [idx EXCEPT ![t] = @ + 1]
            /\ pc' = [pc EXCEPT ![t] = IF idx[t] >= Len(proxies) THEN "exit" ELSE "mf_read"]
            /\ UNCHANGED tmp
    /\ UNCHANGED <<poolVars, op, caller, arg, pre, new_proxies, probe, valid_proxies, ret>>
    /\ UNCHANGED <<script, scenario>>
    /\ UNCHANGED outsidePool

\* Store fail_count, then the ceiling test (lines 374-377).
MfWrite(t) ==
    /\ pc[t] = "mf_write"
    /\ LET i == idx[t]
           e == IF i <= Len(proxies) THEN OnFailure(proxies[i], tmp[t])
                ELSE OnFailure(NewEntry(arg[t]), tmp[t])
       IN /\ proxies' = IF i <= Len(proxies) THEN [proxies EXCEPT ![i] = e] ELSE proxies
          /\ failed_proxies' = FailedAfter(failed_proxies, e, arg[t])
    /\ idx' = [idx EXCEPT ![t] = @ + 1]
    /\ tmp' = [tmp EXCEPT ![t] = 0]
    /\ pc' = [pc EXCEPT ![t] = IF idx[t] >= Len(proxies) THEN "exit" ELSE "mf_read"]
    /\ UNCHANGED <<last_validation, lock, now, started>>
    /\ UNCHANGED <<op, caller, arg, pre, new_proxies, probe, valid_proxies, ret>>
    /\ UNCHANGED <<script, scenario>>
    /\ UNCHANGED outsidePool

\* Leaving the with block of get_random_proxy, mark_success or mark_failure:
\* the lock is released and the method returns to its caller.
Exit(t) ==
    /\ pc[t] = "exit"
    /\ lock' = NoThread
    /\ pc' = [pc EXCEPT ![t] = "idle"]
    /\ op' = [op EXCEPT ![t] = "none"]
    /\ arg' = [arg EXCEPT ![t] = NoAddr]
    /\ pre' = [pre EXCEPT ![t] = NoPre]
    /\ idx' = [idx EXCEPT ![t] = 0]
    /\ ret' = [ret EXCEPT ![t] = <<>>]
    /\ UNCHANGED <<proxies, failed_proxies, last_validation, now, started>>
    /\ UNCHANGED <<caller, tmp, new_proxies, probe, valid_proxies, script, scenario>>
    /\ UNCHANGED outsidePool

Next ==
    \/ Startup
    \/ \E t \in Threads : RefreshProxies(t)
    \/ \E t \in Threads : RfScrape(t)
    \/ \E t \in Threads : RfValidate(t)
    \/ \E t \in Threads : RfSwap(t)
    \/ \E t \in Threads : RfReturn(t)
    \/ \E t \in Threads : GetRandomProxy(t)
    \/ \E t \in Threads : GrpBody(t)
    \/ \E t \in Threads : \E a \in Addrs : MarkSuccess(t, a)
    \/ \E t \in Threads : MsLoop(t)
    \/ \E t \in Threads : \E a \in Addrs : MarkFailure(t, a)
    \/ \E t \in Threads : MfRead(t)
    \/ \E t \in Threads : MfWrite(t)
    \/ \E t \in Threads : Exit(t)

\* The pool from construction on.
Spec == Init /\ [][Next]_vars

\* Selection and feedback on a pool that is not stale (or becomes stale as
\* the clock advances): the calls simulate_view makes.
NextValidated ==
    \/ \E t \in Threads : GetRandomProxy(t)
    \/ \E t \in Threads : GrpBody(t)
    \/ \E t \in Threads : \E a \in Addrs : MarkSuccess(t, a)
    \/ \E t \in Threads : MsLoop(t)
    \/ \E t \in Threads : \E a \in Addrs : MarkFailure(t, a)
    \/ \E t \in Threads : MfRead(t)
    \/ \E t \in Threads : MfWrite(t)
    \/ \E t \in Threads : Exit(t)

SpecValidated == InitValidated /\ [][NextValidated]_vars

\* The feedback calls of scripted clients.
NextScripts ==
    \/ \E t \in Threads : \E a \in Addrs : MarkSuccess(t, a)
    \/ \E t \in Threads : MsLoop(t)
    \/ \E t \in Threads : \E a \in Addrs : MarkFailure(t, a)
    \/ \E t \in Threads : MfRead(t)
    \/ \E t \in Threads : MfWrite(t)
    \/ \E t \in Threads : Exit(t)

SpecScripts == InitScripts /\ [][NextScripts]_vars

\* ------------------------------------------------------- RateLimiter
\* The with self.lock of check_rate_limit missing.
RlLockNotTaken(t) == TRUE

\* RateLimiter.lock, a threading.Lock.
RlLockAvailable(t) == rl_lock = NoThread

\* The denial message: window label, current count, ceiling.
Denied(label, count, ceiling) == <<FALSE, label, count, ceiling>>

Allowed == <<TRUE, "OK", 0, 0>>

\* The three ceiling tests in the order day, hour, minute.
RlVerdictDayFirst(row) ==
    IF row = NoRow THEN Allowed
    ELSE IF row.day_count >= RATE_LIMIT_VISITS_PER_DAY
    THEN Denied("Day", row.day_count, RATE_LIMIT_VISITS_PER_DAY)
    ELSE IF row.hour_count >= RATE_LIMIT_VISITS_PER_HOUR
    THEN Denied("Hour", row.hour_count, RATE_LIMIT_VISITS_PER_HOUR)
    ELSE IF row.minute_count >= RATE_LIMIT_VISITS_PER_MINUTE
    THEN Denied("Minute", row.minute_count, RATE_LIMIT_VISITS_PER_MINUTE)
    ELSE Allowed

\* Lines 642-675 on the fetched row: what check_rate_limit returns.
RlVerdict(row) ==
    IF row = NoRow THEN Allowed
    ELSE IF row.minute_count >= RATE_LIMIT_VISITS_PER_MINUTE
    THEN Denied("Minute", row.minute_count, RATE_LIMIT_VISITS_PER_MINUTE)
    ELSE IF row.hour_count >= RATE_LIMIT_VISITS_PER_HOUR
    THEN Denied("Hour", row.hour_count, RATE_LIMIT_VISITS_PER_HOUR)
    ELSE IF row.day_count >= RATE_LIMIT_VISITS_PER_DAY
    THEN Denied("Day", row.day_count, RATE_LIMIT_VISITS_PER_DAY)
    ELSE Allowed

\* An UPDATE that is not kept behind the three ceiling tests.
RlWriteAlways(table, u, row) ==
    IF row = NoRow THEN [table EXCEPT ![u] = Row(0, 0, 0)]
    ELSE [table EXCEPT ![u] = Row(@.minute_count + 1, @.hour_count + 1, @.day_count + 1)]

\* Lines 643-646 and 665-671 on the table: INSERT a zero row for a user
\* without one; otherwise, when no ceiling is reached, UPDATE the stored
\* counters to themselves plus one.
RlWrite(table, u, row) ==
    IF row = NoRow THEN [table EXCEPT ![u] = Row(0, 0, 0)]
    ELSE IF RlVerdict(row)[1]
    THEN [table EXCEPT ![u] = Row(@.minute_count + 1, @.hour_count + 1, @.day_count + 1)]
    ELSE table

\* check_rate_limit, line 626: with self.lock
CheckRateLimit(t, u) ==
    /\ rl_pc[t] = "idle"
    /\ rl_calls[u] < MaxCalls
    /\ RlLockAvailable(t)
    /\ rl_lock' = t
    /\ rl_user' = [rl_user EXCEPT ![t] = u]
    /\ rl_calls' = [rl_calls EXCEPT ![u] = @ + 1]
    /\ rl_pc' = [rl_pc EXCEPT ![t] = "select"]
    /\ UNCHANGED <<rate_limits, rl_row, rl_ret, rl_now, rl_at, rl_stamp>>
    /\ UNCHANGED outsideRate

\* now = datetime.now(), which does not run backwards;
\* SELECT minute_count, hour_count, day_count ... ; row = cursor.fetchone()
RlSelect(t) ==
    /\ rl_pc[t] = "select"
    /\ \E time \in rl_now .. MaxMinutes :
         /\ rl_now' = time
         /\ rl_at' = [rl_at EXCEPT ![t] = time]
    /\ rl_row' = [rl_row EXCEPT ![t] = rate_limits[rl_user[t]]]
    /\ rl_pc' = [rl_pc EXCEPT ![t] = "decide"]
    /\ UNCHANGED <<rate_limits, rl_lock, rl_user, rl_ret, rl_calls, rl_stamp>>
    /\ UNCHANGED outsideRate

\* Lines 642-675: insert, deny, or update; the return value is ready.
RlDecide(t) ==
    /\ rl_pc[t] = "decide"
    /\ rate_limits' = RlWrite(rate_limits, rl_user[t], rl_row[t])
    /\ rl_ret' = [rl_ret EXCEPT ![t] = RlVerdict(rl_row[t])]
    /\ rl_stamp' = IF rate_limits' # rate_limits
                   THEN [rl_stamp EXCEPT ![rl_user[t]] = rl_at[t]] ELSE rl_stamp
    /\ rl_pc' = [rl_pc EXCEPT ![t] = "return"]
    /\ UNCHANGED <<rl_lock, rl_user, rl_row, rl_calls, rl_now, rl_at>>
    /\ UNCHANGED outsideRate

\* Leaving the with block: the lock is released and the caller has the result.
RlReturn(t) ==
    /\ rl_pc[t] = "return"
    /\ rl_lock' = NoThread
    /\ rl_pc' = [rl_pc EXCEPT ![t] = "idle"]
    /\ rl_user' = [rl_user EXCEPT ![t] = 0]
    /\ rl_row' = [rl_row EXCEPT ![t] = NoRow]
    /\ rl_ret' = [rl_ret EXCEPT ![t] = <<>>]
    /\ UNCHANGED <<rate_limits, rl_calls, rl_now, rl_at, rl_stamp>>
    /\ UNCHANGED outsideRate

NextRate ==
    \/ \E t \in Threads : \E u \in Users : CheckRateLimit(t, u)
    \/ \E t \in Threads : RlSelect(t)
    \/ \E t \in Threads : RlDecide(t)
    \/ \E t \in Threads : RlReturn(t)

\* The admission gate on a fresh database.
SpecRate == Init /\ [][NextRate]_vars

\* Rows DATABASE_FILE can hold when the process starts (CREATE TABLE IF NOT
\* EXISTS keeps them): an earlier run, whose ceilings came from its own
\* environment, left a user's three counters at one common value.
StoredRows == {NoRow} \cup {Row(k, k, k) : k \in 0 .. MaxStored}

\* The admission gate on the database of an earlier run.
InitStored ==
    /\ proxies = <<>>
    /\ failed_proxies = {}
    /\ last_validation = 0
    /\ lock = NoThread
    /\ now = Epoch
    /\ started = FALSE
    /\ ThreadInit
    /\ script = [t \in Threads |-> <<Free>>]
    /\ scenario = [pool |-> <<>>, script |-> script]
    /\ rate_limits \in [Users -> StoredRows]
    /\ rl_lock = NoThread
    /\ rl_pc = [t \in Threads |-> "idle"]
    /\ rl_user = [t \in Threads |-> 0]
    /\ rl_row = [t \in Threads |-> NoRow]
    /\ rl_ret = [t \in Threads |-> <<>>]
    /\ rl_calls = [u \in Users |-> 0]
    /\ rl_now = 0
    /\ rl_at = [t \in Threads |-> 0]
    /\ rl_stamp = [u \in Users |-> IF rate_limits[u] = NoRow THEN NoTime ELSE 0]
    /\ BatchInit
    /\ UtilInit
    /\ ToolInit

SpecStored == InitStored /\ [][NextRate]_vars

\* ---------------------------------------------- YouTubeViewSimulator
\* Targets a batch is asked for.
Urls ==
    {Url(f, n) : f \in {"watch", "embed", "none"},
                 n \in {VIDEO_ID_LEN - 1, VIDEO_ID_LEN + 1}}

\* A resolver that finds an id in every target.
ExtractAny(url) == <<VIDEO_ID_LEN>>

\* extract_video_id: re.search of the three patterns; a match needs one of
\* the prefixes followed by at least 11 id characters and gives the first
\* 11 of them (here: their number); None (<<>>) when nothing matches.
ExtractVideoId(url) ==
    IF url.form \in {"watch", "youtu.be", "embed", "v"} /\ url.idlen >= VIDEO_ID_LEN
    THEN <<VIDEO_ID_LEN>>
    ELSE <<>>

\* Whole ticks in random.uniform(view_time * 0.8, view_time * 1.2).
DwellRange(d) == {x \in 0 .. 2 * d : 5 * x >= 4 * d /\ 5 * x <= 6 * d}

\* Pools a batch can meet: what startup() left, entries with no failure.
BatchPools == {c \in CacheFiles : \A i \in DOMAIN c : c[i].fail_count = 0}

\* A started bot on the early clock of InitValidated; nobody calls the pool
\* but the tasks of a batch.
InitBatch ==
    /\ proxies \in BatchPools
    /\ failed_proxies = {}
    /\ last_validation = 0
    /\ lock = NoThread
    /\ now = 0
    /\ started = TRUE
    /\ ThreadInit
    /\ script = [t \in Threads |-> <<>>]
    /\ scenario = [pool |-> proxies, script |-> script]
    /\ RateInit
    /\ BatchInit
    /\ UtilInit
    /\ ToolInit

\* An executor without its limit.
NoLimit(ws) == TRUE

\* ThreadPoolExecutor(max_workers=MAX_WORKERS): a task is taken up only
\* while fewer than MAX_WORKERS threads run one.
HasSlot(ws) == Cardinality({v \in Threads : ws[v] # "free"}) < MAX_WORKERS

\* The oldest queued task.
FirstQueued ==
    CHOOSE i \in DOMAIN futures :
        futures[i] = "queued" /\ \A j \in 1 .. i - 1 : futures[j] # "queued"

\* simulate_view returns res: the task's future is done.
Finish(w, i, res) ==
    /\ futures' = [futures EXCEPT ![i] = "done"]
    /\ outcome' = [outcome EXCEPT ![i] = res]
    /\ w_pc' = [w_pc EXCEPT ![w] = "free"]
    /\ w_task' = [w_task EXCEPT ![w] = 0]
    /\ w_proxy' = [w_proxy EXCEPT ![w] = NoAddr]
    /\ w_res' = [w_res EXCEPT ![w] = <<>>]

\* Threads with a mark_success (ok) or mark_failure call still to make.
InFlight(ok) ==
    Cardinality({v \in Threads : w_pc[v] = "mark" /\ w_res[v][1] = ok})

\* simulate_views_batch, lines 760-771: the results dict, the executor and
\* view_count submitted tasks; as_completed starts its timeout.
SimulateViewsBatch(url, n, d) ==
    /\ b_pc = "idle"
    /\ started
    /\ b_url' = url
    /\ b_count' = n
    /\ b_dwell' = d
    /\ results' = Results(n, 0, 0, <<>>)
    /\ futures' = [i \in 1 .. n |-> "queued"]
    /\ outcome' = [i \in 1 .. n |-> <<>>]
    /\ yielded' = {}
    /\ b_clock' = 0
    /\ b_pc' = "wait"
    /\ UNCHANGED <<b_sent, workerVars, poolVars, threadVars, clientVars, rateVars, utilVars>>

\* A worker takes the oldest queued task and runs simulate_view up to line
\* 722: an unresolvable target returns at line 720.
SvStart(w) ==
    /\ b_pc \in {"wait", "unwind"}
    /\ w_pc[w] = "free"
    /\ HasSlot(w_pc)
    /\ \E i \in DOMAIN futures : futures[i] = "queued"
    /\ LET i == FirstQueued
       IN IF ExtractVideoId(b_url) = <<>>
          THEN /\ Finish(w, i, <<FALSE, "Invalid YouTube URL">>)
               /\ UNCHANGED script
          ELSE /\ futures' = [futures EXCEPT ![i] = "running"]
               /\ w_task' = [w_task EXCEPT ![w] = i]
               /\ w_pc' = [w_pc EXCEPT ![w] = "select"]
               /\ script' = [script EXCEPT ![w] = <<<<"get_random_proxy", NoAddr>>>>]
               /\ UNCHANGED <<outcome, w_proxy, w_res>>
    /\ UNCHANGED <<b_pc, b_url, b_count, b_dwell, yielded, results, b_clock, b_sent>>
    /\ UNCHANGED <<w_sleep, scenario, poolVars, threadVars, rateVars, utilVars>>

\* get_random_proxy returns to line 722, leaving its with block; None
\* returns "No available proxies" at line 724.
SvSelect(w) ==
    /\ w_pc[w] = "select"
    /\ pc[w] = "exit"
    /\ op[w] = "get_random_proxy"
    /\ lock' = NoThread
    /\ pc' = [pc EXCEPT ![w] = "idle"]
    /\ op' = [op EXCEPT ![w] = "none"]
    /\ arg' = [arg EXCEPT ![w] = NoAddr]
    /\ pre' = [pre EXCEPT ![w] = NoPre]
    /\ idx' = [idx EXCEPT ![w] = 0]
    /\ ret' = [ret EXCEPT ![w] = <<>>]
    /\ IF ret[w] = <<>>
       THEN Finish(w, w_task[w], <<FALSE, "No available proxies">>)
       ELSE /\ w_proxy' = [w_proxy EXCEPT ![w] = ret[w][1].proxy]
            /\ w_pc' = [w_pc EXCEPT ![w] = "request"]
            /\ UNCHANGED <<futures, outcome, w_task, w_res>>
    /\ UNCHANGED <<proxies, failed_proxies, last_validation, now, started>>
    /\ UNCHANGED <<caller, tmp, new_proxies, probe, valid_proxies, script, scenario>>
    /\ UNCHANGED <<b_pc, b_url, b_count, b_dwell, yielded, results, b_clock, b_sent>>
    /\ UNCHANGED <<w_sleep, rateVars, utilVars>>

\* A success reported and then, the sleep of line 744 having raised into
\* the except of line 750, a failure as well.
FeedbackBoth(ok, a) == <<<<"mark_success", a>>, <<"mark_failure", a>>>>

\* The pool call that follows the request: mark_success at line 743 on
\* status 200, mark_failure at line 747 or 751 otherwise.
Feedback(ok, a) == <<<<IF ok THEN "mark_success" ELSE "mark_failure", a>>>>

\* requests.get of lines 734-740 and its classification: status 200, another
\* status, or an exception; the feedback call comes next.
SvRequest(w) ==
    /\ w_pc[w] = "request"
    /\ \E status \in {"200", "404", "error"} :
         /\ IF status = "200"
            THEN \A i \in DOMAIN proxies :
                    proxies[i].success_count + InFlight(TRUE) < MaxSucc
            ELSE \A i \in DOMAIN proxies :
                    proxies[i].fail_count + InFlight(FALSE) < MaxFail
         /\ w_res' = [w_res EXCEPT ![w] =
                        IF status = "200" THEN <<TRUE, "View simulated successfully">>
                        ELSE IF status = "404" THEN <<FALSE, "HTTP 404">>
                        ELSE <<FALSE, "error">>]
         /\ script' = [script EXCEPT ![w] = Feedback(status = "200", w_proxy[w])]
    /\ b_sent' = b_sent + 1
    /\ w_pc' = [w_pc EXCEPT ![w] = "mark"]
    /\ UNCHANGED <<b_pc, b_url, b_count, b_dwell, futures, outcome, yielded, results, b_clock>>
    /\ UNCHANGED <<w_task, w_proxy, w_sleep, scenario, poolVars, threadVars, rateVars, utilVars>>

\* mark_success or mark_failure has returned: a failure returns at line 748
\* or 752, a success goes to sleep at line 744.
SvMarked(w) ==
    /\ w_pc[w] = "mark"
    /\ pc[w] = "idle"
    /\ script[w] = <<>>
    /\ IF w_res[w][1]
       THEN /\ w_pc' = [w_pc EXCEPT ![w] = "dwell"]
            /\ \E x \in DwellRange(b_dwell) : w_sleep' = [w_sleep EXCEPT ![w] = x]
            /\ UNCHANGED <<futures, outcome, w_task, w_proxy, w_res>>
       ELSE /\ Finish(w, w_task[w], w_res[w])
            /\ UNCHANGED w_sleep
    /\ UNCHANGED <<b_pc, b_url, b_count, b_dwell, yielded, results, b_clock, b_sent>>
    /\ UNCHANGED <<poolVars, threadVars, clientVars, rateVars, utilVars>>

\* time.sleep is over: return True, "View simulated successfully".
SvWake(w) ==
    /\ w_pc[w] = "dwell"
    /\ w_sleep[w] = 0
    /\ Finish(w, w_task[w], w_res[w])
    /\ UNCHANGED <<b_pc, b_url, b_count, b_dwell, yielded, results, b_clock, b_sent>>
    /\ UNCHANGED <<w_sleep, poolVars, threadVars, clientVars, rateVars, utilVars>>

\* An errors list that keeps one entry per distinct message.
CountedDistinct(rs, res) ==
    IF res[1] THEN [rs EXCEPT !.successful = @ + 1]
    ELSE [rs EXCEPT !.failed = @ + 1,
                    !.errors = IF \E k \in DOMAIN @ : @[k] = res[2] THEN @
                               ELSE Append(@, res[2])]

\* Lines 775-780 on what future.result() gives.
Counted(rs, res) ==
    IF res[1] THEN [rs EXCEPT !.successful = @ + 1]
    ELSE [rs EXCEPT !.failed = @ + 1, !.errors = Append(@, res[2])]

\* One iteration of  for future in as_completed(...)  : a finished task not
\* yet yielded.  simulate_view catches every exception, so future.result()
\* returns and lines 781-786 do not run.
BatchCollect ==
    /\ b_pc = "wait"
    /\ \E i \in DOMAIN futures \ yielded :
         /\ futures[i] = "done"
         /\ yielded' = yielded \cup {i}
         /\ results' = Counted(results, outcome[i])
    /\ UNCHANGED <<b_pc, b_url, b_count, b_dwell, futures, outcome, b_clock, b_sent>>
    /\ UNCHANGED <<workerVars, poolVars, threadVars, clientVars, rateVars, utilVars>>

\* A for statement left before as_completed is exhausted.
DrainedEarly(ys) == TRUE

\* as_completed is exhausted: it has yielded every future.
Drained(ys) == ys = DOMAIN futures

\* Every future was yielded: the with block is left (no task is running)
\* and line 788 returns results.
BatchReturn ==
    /\ b_pc = "wait"
    /\ Drained(yielded)
    /\ b_pc' = "returned"
    /\ UNCHANGED <<b_url, b_count, b_dwell, futures, outcome, yielded, results, b_clock, b_sent>>
    /\ UNCHANGED <<workerVars, poolVars, threadVars, clientVars, rateVars, utilVars>>

\* as_completed finds its timeout over with futures pending and raises
\* TimeoutError out of the for statement of line 773, outside the try of
\* line 774: the exception leaves through the with block of line 767.
Deadline ==
    /\ b_pc = "wait"
    /\ b_clock > THREAD_POOL_TIMEOUT
    /\ \E i \in DOMAIN futures : futures[i] # "done"
    /\ b_pc' = "unwind"
    /\ UNCHANGED <<b_url, b_count, b_dwell, futures, outcome, yielded, results, b_clock, b_sent>>
    /\ UNCHANGED <<workerVars, poolVars, threadVars, clientVars, rateVars, utilVars>>

\* ThreadPoolExecutor.__exit__ is shutdown(wait=True): it joins the workers,
\* which first run every task still queued; then TimeoutError reaches the
\* caller of simulate_views_batch.
BatchUnwound ==
    /\ b_pc = "unwind"
    /\ \A i \in DOMAIN futures : futures[i] = "done"
    /\ b_pc' = "raised"
    /\ UNCHANGED <<b_url, b_count, b_dwell, futures, outcome, yielded, results, b_clock, b_sent>>
    /\ UNCHANGED <<workerVars, poolVars, threadVars, clientVars, rateVars, utilVars>>

\* The steps of a batch that take no time of their own.
Instant ==
    \/ \E w \in Threads : SvStart(w)
    \/ \E w \in Threads : GetRandomProxy(w)
    \/ \E w \in Threads : GrpBody(w)
    \/ \E w \in Threads : SvSelect(w)
    \/ \E w \in Threads : SvRequest(w)
    \/ \E w \in Threads : \E a \in Addrs : MarkSuccess(w, a)
    \/ \E w \in Threads : MsLoop(w)
    \/ \E w \in Threads : \E a \in Addrs : MarkFailure(w, a)
    \/ \E w \in Threads : MfRead(w)
    \/ \E w \in Threads : MfWrite(w)
    \/ \E w \in Threads : op[w] # "get_random_proxy" /\ Exit(w)
    \/ \E w \in Threads : SvMarked(w)
    \/ \E w \in Threads : SvWake(w)
    \/ BatchCollect
    \/ BatchReturn
    \/ Deadline
    \/ BatchUnwound

\* One tick passes while the batch is under way and every thread sleeps or
\* waits: as_completed's timeout and the sleeps of line 744 run down.
Tick ==
    /\ b_pc \in {"wait", "unwind"}
    /\ ~ENABLED Instant
    /\ b_clock <= THREAD_POOL_TIMEOUT \/ \E w \in Threads : w_sleep[w] > 0
    /\ b_clock' = IF b_clock <= THREAD_POOL_TIMEOUT THEN b_clock + 1 ELSE b_clock
    /\ w_sleep' = [w \in Threads |-> IF w_sleep[w] > 0 THEN w_sleep[w] - 1 ELSE 0]
    /\ UNCHANGED <<b_pc, b_url, b_count, b_dwell, futures, outcome, yielded, results, b_sent>>
    /\ UNCHANGED <<w_pc, w_task, w_proxy, w_res, poolVars, threadVars, clientVars, rateVars, utilVars>>

NextBatch ==
    \/ \E url \in Urls : \E n \in 0 .. MaxViews :
         \E d \in MIN_VIEW_TIME .. MAX_VIEW_TIME : SimulateViewsBatch(url, n, d)
    \/ \E w \in Threads : SvStart(w)
    \/ \E w \in Threads : GetRandomProxy(w)
    \/ \E w \in Threads : GrpBody(w)
    \/ \E w \in Threads : SvSelect(w)
    \/ \E w \in Threads : SvRequest(w)
    \/ \E w \in Threads : \E a \in Addrs : MarkSuccess(w, a)
    \/ \E w \in Threads : MsLoop(w)
    \/ \E w \in Threads : \E a \in Addrs : MarkFailure(w, a)
    \/ \E w \in Threads : MfRead(w)
    \/ \E w \in Threads : MfWrite(w)
    \/ \E w \in Threads : op[w] # "get_random_proxy" /\ Exit(w)
    \/ \E w \in Threads : SvMarked(w)
    \/ \E w \in Threads : SvWake(w)
    \/ BatchCollect
    \/ BatchReturn
    \/ Deadline
    \/ BatchUnwound
    \/ Tick

\* One batch on a started bot.
SpecBatch == InitBatch /\ [][NextBatch]_vars

\* ---------------------------------------------- refresh and staleness
\* Pools a refresh_proxies run can leave: up to PROXY_POOL_SIZE fresh entries.
RefreshedPools ==
    UNION {[1 .. n -> {NewEntry(a) : a \in Addrs}] : n \in 0 .. PROXY_POOL_SIZE}

\* startup() has just finished by running refresh_proxies to its end, at
\* time Epoch, the cache file having given nothing.
InitRefreshed ==
    /\ proxies \in RefreshedPools
    /\ failed_proxies = {}
    /\ last_validation = 0
    /\ lock = NoThread
    /\ now = Epoch
    /\ started = TRUE
    /\ ThreadInit
    /\ script = [t \in Threads |-> <<Free>>]
    /\ scenario = [pool |-> proxies, script |-> script]
    /\ RateInit
    /\ BatchInit
    /\ UtilInit
    /\ ToolInit

\* Selections and refresh commands after the startup refresh.
NextRefreshed ==
    \/ \E t \in Threads : RefreshProxies(t)
    \/ \E t \in Threads : RfScrape(t)
    \/ \E t \in Threads : RfValidate(t)
    \/ \E t \in Threads : RfSwap(t)
    \/ \E t \in Threads : RfReturn(t)
    \/ \E t \in Threads : GetRandomProxy(t)
    \/ \E t \in Threads : GrpBody(t)

SpecRefreshed == InitRefreshed /\ [][NextRefreshed]_vars

\* ----------------------------------------------------------- LRUCache
\* Every method body runs under  with self.lock  from its first statement
\* to its last, so a call is one step.
HasKey(c, k) == \E i \in DOMAIN c : c[i].key = k

Position(c, k) == CHOOSE i \in DOMAIN c : c[i].key = k

KeysOf(c) == {c[i].key : i \in DOMAIN c}

\* del self.cache[key]
Delete(c, k) == SelectSeq(c, LAMBDA e : e.key # k)

\* An entry left where it is.
LeaveInPlace(c, k) == c

\* self.cache.move_to_end(key)
MoveToEnd(c, k) == Append(Delete(c, k), c[Position(c, k)])

\* An assignment that keeps the value a key already has.
StoreOnce(c, k, v) ==
    IF HasKey(c, k) THEN c ELSE Append(c, Item(k, v))

\* self.cache[key] = value: a key the dict holds keeps its place.
Store(c, k, v) ==
    IF HasKey(c, k) THEN [c EXCEPT ![Position(c, k)] = Item(k, v)]
    ELSE Append(c, Item(k, v))

\* The size test one entry late.
OverfullLate(c) == Len(c) > max_size + 1

\* if len(self.cache) > self.max_size
Overfull(c) == Len(c) > max_size

\* The expiry test one tick late.
ExpiredLate(stamp, time) == time - stamp > expiry_time + 1

\* time.time() - self.timestamps[key] > self.expiry_time
Expired(stamp, time) == time - stamp > expiry_time

\* Values time.time() can return to the cache.
LruClock == lru_clock .. MaxLruTime

\* size()
Size == Len(lru_cache)

\* set(key, value), lines 68-79.
LruSet(k, v) ==
    /\ lru_ops < MaxLruOps
    /\ \E time \in LruClock :
         LET moved == IF HasKey(lru_cache, k) THEN MoveToEnd(lru_cache, k) ELSE lru_cache
             stored == Store(moved, k, v)
             stamped == [lru_timestamps EXCEPT ![k] = time]
             seen == [lru_seen EXCEPT ![k] = Seen(<<v>>, time, lru_ops + 1, "no")]
             oldest_key == stored[1].key
         IN /\ lru_clock' = time
            /\ IF Overfull(stored)
               THEN /\ lru_cache' = Delete(stored, oldest_key)
                    /\ lru_timestamps' = [stamped EXCEPT ![oldest_key] = NoTime]
                    /\ lru_seen' = [seen EXCEPT ![oldest_key].gone = "evicted"]
                    /\ lru_op' = Call("set", k, <<>>, oldest_key)
               ELSE /\ lru_cache' = stored
                    /\ lru_timestamps' = stamped
                    /\ lru_seen' = seen
                    /\ lru_op' = Call("set", k, <<>>, NoKey)
    /\ lru_ops' = lru_ops + 1
    /\ UNCHANGED <<poolVars, threadVars, clientVars, rateVars, batchVars, workerVars, cfgVars, toolVars>>

\* get(key), lines 52-64.
LruGet(k) ==
    /\ lru_ops < MaxLruOps
    /\ IF ~HasKey(lru_cache, k)
       THEN /\ lru_op' = Call("get", k, <<>>, NoKey)
            /\ UNCHANGED <<lru_cache, lru_timestamps, lru_clock, lru_seen>>
       ELSE \E time \in LruClock :
              /\ lru_clock' = time
              /\ IF Expired(lru_timestamps[k], time)
                 THEN /\ lru_cache' = Delete(lru_cache, k)
                      /\ lru_timestamps' = [lru_timestamps EXCEPT ![k] = NoTime]
                      /\ lru_seen' = [lru_seen EXCEPT ![k].gone = "expired"]
                      /\ lru_op' = Call("get", k, <<>>, NoKey)
                 ELSE LET moved == MoveToEnd(lru_cache, k)
                      IN /\ lru_cache' = moved
                         /\ lru_seen' = [lru_seen EXCEPT ![k].used = lru_ops + 1]
                         /\ lru_op' = Call("get", k, <<moved[Len(moved)].value>>, NoKey)
                         /\ UNCHANGED lru_timestamps
    /\ lru_ops' = lru_ops + 1
    /\ UNCHANGED <<poolVars, threadVars, clientVars, rateVars, batchVars, workerVars, cfgVars, toolVars>>

\* clear(), lines 83-85.
LruClear ==
    /\ lru_ops < MaxLruOps
    /\ lru_cache' = <<>>
    /\ lru_timestamps' = [k \in Keys |-> NoTime]
    /\ lru_seen' = [k \in Keys |->
                      IF HasKey(lru_cache, k) THEN [lru_seen[k] EXCEPT !.gone = "cleared"]
                      ELSE lru_seen[k]]
    /\ lru_op' = Call("clear", NoKey, <<>>, NoKey)
    /\ lru_ops' = lru_ops + 1
    /\ UNCHANGED lru_clock
    /\ UNCHANGED <<poolVars, threadVars, clientVars, rateVars, batchVars, workerVars, cfgVars, toolVars>>

NextLru ==
    \/ \E k \in Keys : \E v \in Values : LruSet(k, v)
    \/ \E k \in Keys : LruGet(k)
    \/ LruClear

\* A new LRUCache and the calls made on it.
SpecLru == Init /\ [][NextLru]_vars

\* ------------------------------------------------------------- Config
\* Config(): type.__call__ runs Config.__new__(cls), then __init__ on the
\* object it returned.  A thread can be switched out between any two of
\* the steps below.
Construct(t) ==
    /\ cfg_pc[t] = "idle"
    /\ cfg_calls[t] < MaxConstructions
    /\ cfg_calls' = [cfg_calls EXCEPT ![t] = @ + 1]
    /\ cfg_pc' = [cfg_pc EXCEPT ![t] = "new_test"]
    /\ UNCHANGED <<cfg_instance, cfg_initialized, cfg_loads, cfg_made, cfg_self, cfg_got>>
    /\ UNCHANGED <<poolVars, threadVars, clientVars, rateVars, batchVars, workerVars, lruVars, toolVars>>

\* if cls._instance is None, line 171.
NewTest(t) ==
    /\ cfg_pc[t] = "new_test"
    /\ cfg_pc' = [cfg_pc EXCEPT ![t] = IF cfg_instance = NoObject THEN "new_make"
                                       ELSE "new_return"]
    /\ UNCHANGED <<cfg_instance, cfg_initialized, cfg_loads, cfg_made, cfg_self, cfg_got, cfg_calls>>
    /\ UNCHANGED <<poolVars, threadVars, clientVars, rateVars, batchVars, workerVars, lruVars, toolVars>>

\* cls._instance = super(Config, cls).__new__(cls), line 172.
NewMake(t) ==
    /\ cfg_pc[t] = "new_make"
    /\ cfg_made' = cfg_made + 1
    /\ cfg_instance' = cfg_made + 1
    /\ cfg_pc' = [cfg_pc EXCEPT ![t] = "new_flag"]
    /\ UNCHANGED <<cfg_initialized, cfg_loads, cfg_self, cfg_got, cfg_calls>>
    /\ UNCHANGED <<poolVars, threadVars, clientVars, rateVars, batchVars, workerVars, lruVars, toolVars>>

\* cls._instance._initialized = False, line 173, on the object _instance
\* names now.
NewFlag(t) ==
    /\ cfg_pc[t] = "new_flag"
    /\ cfg_initialized' = [cfg_initialized EXCEPT ![cfg_instance] = "False"]
    /\ cfg_pc' = [cfg_pc EXCEPT ![t] = "new_return"]
    /\ UNCHANGED <<cfg_instance, cfg_loads, cfg_made, cfg_self, cfg_got, cfg_calls>>
    /\ UNCHANGED <<poolVars, threadVars, clientVars, rateVars, batchVars, workerVars, lruVars, toolVars>>

\* return cls._instance, line 174; __init__ is called on it.
NewReturn(t) ==
    /\ cfg_pc[t] = "new_return"
    /\ cfg_self' = [cfg_self EXCEPT ![t] = cfg_instance]
    /\ cfg_pc' = [cfg_pc EXCEPT ![t] = "init_test"]
    /\ UNCHANGED <<cfg_instance, cfg_initialized, cfg_loads, cfg_made, cfg_got, cfg_calls>>
    /\ UNCHANGED <<poolVars, threadVars, clientVars, rateVars, batchVars, workerVars, lruVars, toolVars>>

\* if self._initialized: return, lines 178-179.  The class has no
\* _initialized of its own, so on an object line 173 has not reached the
\* read raises AttributeError out of Config().
InitTest(t) ==
    /\ cfg_pc[t] = "init_test"
    /\ cfg_pc' = [cfg_pc EXCEPT ![t] =
                    IF cfg_initialized[cfg_self[t]] = "unset" THEN "raised"
                    ELSE IF cfg_initialized[cfg_self[t]] = "True" THEN "idle"
                    ELSE "init_set"]
    /\ cfg_got' = [cfg_got EXCEPT ![t] =
                    IF cfg_initialized[cfg_self[t]] = "True" THEN Append(@, cfg_self[t])
                    ELSE @]
    /\ UNCHANGED <<cfg_instance, cfg_initialized, cfg_loads, cfg_made, cfg_self, cfg_calls>>
    /\ UNCHANGED <<poolVars, threadVars, clientVars, rateVars, batchVars, workerVars, lruVars, toolVars>>

\* self._initialized = True, line 181.
InitSet(t) ==
    /\ cfg_pc[t] = "init_set"
    /\ cfg_initialized' = [cfg_initialized EXCEPT ![cfg_self[t]] = "True"]
    /\ cfg_pc' = [cfg_pc EXCEPT ![t] = "init_load"]
    /\ UNCHANGED <<cfg_instance, cfg_loads, cfg_made, cfg_self, cfg_got, cfg_calls>>
    /\ UNCHANGED <<poolVars, threadVars, clientVars, rateVars, batchVars, workerVars, lruVars, toolVars>>

\* self.load_from_file(), line 182, which catches what it raises; Config()
\* returns the object.
InitLoad(t) ==
    /\ cfg_pc[t] = "init_load"
    /\ cfg_loads' = [cfg_loads EXCEPT ![cfg_self[t]] = @ + 1]
    /\ cfg_got' = [cfg_got EXCEPT ![t] = Append(@, cfg_self[t])]
    /\ cfg_pc' = [cfg_pc EXCEPT ![t] = "idle"]
    /\ UNCHANGED <<cfg_instance, cfg_initialized, cfg_made, cfg_self, cfg_calls>>
    /\ UNCHANGED <<poolVars, threadVars, clientVars, rateVars, batchVars, workerVars, lruVars, toolVars>>

NextConfig ==
    \/ \E t \in Threads : Construct(t)
    \/ \E t \in Threads : NewTest(t)
    \/ \E t \in Threads : NewMake(t)
    \/ \E t \in Threads : NewFlag(t)
    \/ \E t \in Threads : NewReturn(t)
    \/ \E t \in Threads : InitTest(t)
    \/ \E t \in Threads : InitSet(t)
    \/ \E t \in Threads : InitLoad(t)

\* Threads constructing Config.
SpecConfig == Init /\ [][NextConfig]_vars

\* ------------------------------------------------------ validate_proxy

\* What one requests.get of validate_proxy can come to: a response with
\* status 200, a response with another status, or an exception (a timeout
\* included).
Answers == {"200", "404", "error"}

\* Any answer that is a response counts.
SucceededAny(answer) == answer # "error"

\* response.status_code == 200, reached only when requests.get returned.
Succeeded(answer) == answer = "200"

\* validate_proxy(proxy) is entered: test_urls and proxy_dict are built;
\* answers[i] is what the i-th endpoint will answer through this proxy.
ValidateProxy(a, answers) ==
    /\ vp_i = 0
    /\ vp_proxy' = a
    /\ vp_answers' = answers
    /\ vp_i' = 1
    /\ vp_sent' = 0
    /\ vp_ret' = <<>>
    /\ UNCHANGED <<coreVars, retryVars, limitVars, notifyVars, schedVars>>

\* One turn of "for url in test_urls": the request, then return True on a
\* 200, the next url otherwise, and return False after the last one.
VpProbe ==
    /\ vp_i \in 1 .. NumProbes
    /\ vp_sent' = vp_sent + 1
    /\ IF Succeeded(vp_answers[vp_i])
         THEN vp_ret' = <<TRUE>> /\ vp_i' = 0
         ELSE IF vp_i = NumProbes
                THEN vp_ret' = <<FALSE>> /\ vp_i' = 0
                ELSE vp_ret' = vp_ret /\ vp_i' = vp_i + 1
    /\ UNCHANGED <<vp_proxy, vp_answers>>
    /\ UNCHANGED <<coreVars, retryVars, limitVars, notifyVars, schedVars>>

NextProbe ==
    \/ \E a \in Addrs, answers \in [1 .. NumProbes -> Answers] :
          ValidateProxy(a, answers)
    \/ VpProbe

SpecProbe == InitBatch /\ [][NextProbe]_vars

\* ---------------------------------------------------- retry_on_failure

\* How an invocation of func ends: it returns, it raises an Exception, or
\* it raises a BaseException that "except Exception" does not catch.
Endings == {"returns", "Exception", "BaseException"}

\* One attempt fewer than the loop makes.
AttemptsFewer(R) == R

\* The turns of  for attempt in range(max_retries + 1).
Attempts(R) == R + 1

\* The wrapper is called: current_delay = delay (taken as 1),
\* last_exception = None.
RetryCall(R, b, raises) ==
    /\ rt_pc \in {"idle", "done"}
    /\ rt_pc' = "loop"
    /\ rt_in' = RetryInput(R, b, raises)
    /\ rt_attempt' = 0
    /\ rt_delay' = 1
    /\ rt_last' = 0
    /\ rt_calls' = 0
    /\ rt_ret' = <<>>
    /\ UNCHANGED <<coreVars, probeVars, limitVars, notifyVars, schedVars>>

\* One turn of the loop, or "raise last_exception" once the loop is over.
\* A turn invokes func: its return value is returned at once; an Exception
\* is kept in last_exception and, when attempt < max_retries, followed by
\* the sleep and current_delay *= backoff; anything else propagates.
RetryAttempt ==
    /\ rt_pc = "loop"
    /\ IF rt_attempt >= Attempts(rt_in.max_retries)
         THEN /\ rt_ret' = <<"raised", rt_last>>
              /\ rt_pc' = "done"
              /\ UNCHANGED <<rt_attempt, rt_delay, rt_last, rt_calls>>
         ELSE LET n == rt_calls + 1
                  ending == rt_in.raises[n]
              IN /\ rt_calls' = n
                 /\ IF ending = "Exception"
                      THEN /\ rt_last' = n
                           /\ rt_delay' = IF rt_attempt < rt_in.max_retries
                                            THEN rt_delay * rt_in.backoff
                                            ELSE rt_delay
                           /\ rt_attempt' = rt_attempt + 1
                           /\ UNCHANGED <<rt_pc, rt_ret>>
                      ELSE /\ rt_ret' = <<IF ending = "returns" THEN "returned"
                                          ELSE "raised", n>>
                           /\ rt_pc' = "done"
                           /\ UNCHANGED <<rt_attempt, rt_delay, rt_last>>
    /\ UNCHANGED rt_in
    /\ UNCHANGED <<coreVars, probeVars, limitVars, notifyVars, schedVars>>

NextRetry ==
    \/ \E R \in 0 .. MaxRetries, b \in 1 .. MaxBackoff :
          \E raises \in [1 .. R + 1 -> Endings] : RetryCall(R, b, raises)
    \/ RetryAttempt

SpecRetry == Init /\ [][NextRetry]_vars

\* ----------------------------------------------------------- rate_limit

\* [t for t in call_times if now - t < period]
Recent(times, time) ==
    SelectSeq(times, LAMBDA t : time - t < period)

\* period - (now - call_times[0])
SleepTime(times, time) == period - (time - times[1])

\* A thread calls the wrapper and gets the lock: now is read, call_times is
\* pruned, and either the thread goes to sleep with the lock held or now is
\* appended and the lock released.
RdEnter(t) ==
    /\ rd_pc[t] = "idle"
    /\ rd_lock = NoThread
    /\ rd_calls < MaxLimitCalls
    /\ rd_calls' = rd_calls + 1
    /\ rd_now' = [rd_now EXCEPT ![t] = rd_clock]
    /\ LET kept == Recent(rd_call_times, rd_clock)
       IN IF Len(kept) >= calls /\ SleepTime(kept, rd_clock) > 0
            THEN /\ rd_call_times' = kept
                 /\ rd_lock' = t
                 /\ rd_pc' = [rd_pc EXCEPT ![t] = "sleep"]
            ELSE /\ rd_call_times' = Append(kept, rd_clock)
                 /\ rd_lock' = NoThread
                 /\ rd_pc' = [rd_pc EXCEPT ![t] = "call"]
    /\ UNCHANGED <<rd_clock, rd_starts>>
    /\ UNCHANGED <<coreVars, probeVars, retryVars, notifyVars, schedVars>>

\* time.sleep(sleep_time) is over: the now read before the sleep is
\* appended and the lock released.
RdWake(t) ==
    /\ rd_pc[t] = "sleep"
    /\ rd_clock >= rd_now[t] + SleepTime(rd_call_times, rd_now[t])
    /\ rd_call_times' = Append(rd_call_times, rd_now[t])
    /\ rd_lock' = NoThread
    /\ rd_pc' = [rd_pc EXCEPT ![t] = "call"]
    /\ UNCHANGED <<rd_now, rd_clock, rd_starts, rd_calls>>
    /\ UNCHANGED <<coreVars, probeVars, retryVars, notifyVars, schedVars>>

\* return func(*args, **kwargs), outside the lock: func is started.
RdInvoke(t) ==
    /\ rd_pc[t] = "call"
    /\ rd_starts' = Append(rd_starts, rd_clock)
    /\ rd_pc' = [rd_pc EXCEPT ![t] = "idle"]
    /\ UNCHANGED <<rd_call_times, rd_lock, rd_now, rd_clock, rd_calls>>
    /\ UNCHANGED <<coreVars, probeVars, retryVars, notifyVars, schedVars>>

\* Time passes.
RdTick ==
    /\ rd_clock < MaxLimitTime
    /\ rd_clock' = rd_clock + 1
    /\ UNCHANGED <<rd_call_times, rd_lock, rd_pc, rd_now, rd_starts, rd_calls>>
    /\ UNCHANGED <<coreVars, probeVars, retryVars, notifyVars, schedVars>>

NextLimit ==
    \/ \E t \in Threads : RdEnter(t)
    \/ \E t \in Threads : RdWake(t)
    \/ \E t \in Threads : RdInvoke(t)
    \/ RdTick

SpecLimit == Init /\ [][NextLimit]_vars

\* -------------------------------------------------- NotificationManager

\* The first max_notifications entries kept instead of the last.
TrimmedFirst(ns) ==
    IF Len(ns) > max_notifications
      THEN SubSeq(ns, 1, max_notifications)
      ELSE ns

\* if len(...) > self.max_notifications: keep [-self.max_notifications:]
Trimmed(ns) ==
    IF Len(ns) > max_notifications
      THEN SubSeq(ns, Len(ns) - max_notifications + 1, Len(ns))
      ELSE ns

\* The position of the first entry of ns whose id is id, 0 when none:
\* where mark_as_read's loop stops.
FirstWithId(ns, id) ==
    IF \E i \in DOMAIN ns : ns[i].id = id
      THEN CHOOSE i \in DOMAIN ns :
              ns[i].id = id /\ \A j \in 1 .. i - 1 : ns[j].id # id
      ELSE 0

\* send_notification(user_id, ...), the whole of it under self.lock: the id
\* is the length of the user's list, the notification is appended unread
\* and the list cut to its last max_notifications entries.
SendNotification(u) ==
    /\ nm_serial < MaxSends
    /\ nm_serial' = nm_serial + 1
    /\ nm_notifications' = [nm_notifications EXCEPT ![u] =
          Trimmed(Append(@, Notification(Len(@), nm_serial + 1, FALSE)))]
    /\ nm_sent' = [nm_sent EXCEPT ![u] = Append(@, nm_serial + 1)]
    /\ UNCHANGED <<coreVars, probeVars, retryVars, limitVars, schedVars>>

\* mark_as_read(user_id, notification_id): the first entry with that id is
\* marked, none when there is no such entry.
MarkAsRead(u, id) ==
    /\ LET i == FirstWithId(nm_notifications[u], id)
       IN nm_notifications' =
             IF i = 0 THEN nm_notifications
             ELSE [nm_notifications EXCEPT ![u][i].read = TRUE]
    /\ UNCHANGED <<nm_sent, nm_serial>>
    /\ UNCHANGED <<coreVars, probeVars, retryVars, limitVars, schedVars>>

\* clear_notifications(user_id)
ClearNotifications(u) ==
    /\ nm_notifications' = [nm_notifications EXCEPT ![u] = <<>>]
    /\ nm_sent' = [nm_sent EXCEPT ![u] = <<>>]
    /\ UNCHANGED nm_serial
    /\ UNCHANGED <<coreVars, probeVars, retryVars, limitVars, schedVars>>

NextNotify ==
    \/ \E u \in Users : SendNotification(u)
    \/ \E u \in Users, id \in 0 .. MaxSends : MarkAsRead(u, id)
    \/ \E u \in Users : ClearNotifications(u)

SpecNotify == Init /\ [][NextNotify]_vars

\* -------------------------------------------------------- TaskScheduler

\* task['enabled'] and current_time >= task['next_run'], for a task of
\* self.tasks.
Due(id, time) ==
    /\ ts_tasks[id] # NoTask
    /\ time >= ts_tasks[id].next_run

\* add_task(task_id, interval, callback): the dict is stored under the
\* lock, replacing one already stored under the id.
AddTask(id, interval) ==
    /\ ts_tasks' = [ts_tasks EXCEPT ![id] = Task(interval, ts_clock + interval)]
    /\ ts_reg' = [ts_reg EXCEPT ![id] = ts_clock]
    /\ ts_runs' = [ts_runs EXCEPT ![id] = <<>>]
    /\ UNCHANGED <<ts_clock, ts_pc>>
    /\ UNCHANGED <<coreVars, probeVars, retryVars, limitVars, notifyVars>>

\* remove_task(task_id): del self.tasks[task_id] under the lock when the id
\* is there.
RemoveTask(id) ==
    /\ ts_tasks' = [ts_tasks EXCEPT ![id] = NoTask]
    /\ UNCHANGED <<ts_clock, ts_pc, ts_reg, ts_runs>>
    /\ UNCHANGED <<coreVars, probeVars, retryVars, limitVars, notifyVars>>

\* One pass of _run_scheduler's loop body up to the sleep: current_time is
\* read and, under the lock, the callback of every due task is started;
\* last_run and next_run are set after the callback returned, and are left
\* as they were for the tasks whose callback raised.
RunScheduler ==
    /\ ts_pc = "loop"
    /\ \E raising \in SUBSET {id \in TaskIds : Due(id, ts_clock)} :
          /\ ts_runs' = [id \in TaskIds |->
                IF Due(id, ts_clock) THEN Append(ts_runs[id], ts_clock)
                ELSE ts_runs[id]]
          /\ ts_tasks' = [id \in TaskIds |->
                IF Due(id, ts_clock) /\ id \notin raising
                  THEN Task(ts_tasks[id].interval, ts_clock + ts_tasks[id].interval)
                  ELSE ts_tasks[id]]
    /\ ts_pc' = "sleep"
    /\ UNCHANGED <<ts_clock, ts_reg>>
    /\ UNCHANGED <<coreVars, probeVars, retryVars, limitVars, notifyVars>>

\* time.sleep(1)
SchedulerSleep ==
    /\ ts_pc = "sleep"
    /\ ts_clock < MaxSchedTime
    /\ ts_clock' = ts_clock + 1
    /\ ts_pc' = "loop"
    /\ UNCHANGED <<ts_tasks, ts_reg, ts_runs>>
    /\ UNCHANGED <<coreVars, probeVars, retryVars, limitVars, notifyVars>>

NextScheduler ==
    \/ \E id \in TaskIds, interval \in 1 .. MaxInterval : AddTask(id, interval)
    \/ \E id \in TaskIds : RemoveTask(id)
    \/ RunScheduler
    \/ SchedulerSleep

SpecScheduler == Init /\ [][NextScheduler]_vars

\* ------------------------------------------------------------- claims
\* A step of thread t inside a call on the pool.
CallStep(t) ==
    \/ RefreshProxies(t)
    \/ RfScrape(t)
    \/ RfValidate(t)
    \/ RfSwap(t)
    \/ RfReturn(t)
    \/ GrpBody(t)
    \/ MsLoop(t)
    \/ MfRead(t)
    \/ MfWrite(t)
    \/ Exit(t)

\* Thread t is at the end of a call of method o, result ready, lock held.
AtExit(t, o) == pc[t] = "exit" /\ op[t] = o

\* C1: every call of get_random_proxy returns, also on a stale pool: a
\* thread inside get_random_proxy can always take its next step.
C1_GetRandomProxyReturns ==
    \A t \in Threads :
        (op[t] = "get_random_proxy" /\ pc[t] # "idle") => ENABLED CallStep(t)

\* C2: while refresh_proxies scrapes or validates candidates, the pool lock
\* is free, so that another thread's call can take it.
C2_LockFreeWhileValidating ==
    \A t \in Threads : pc[t] \in {"rf_scrape", "rf_validate"} => lock = NoThread

\* C3: get_random_proxy never returns an address whose fail_count has reached
\* MAX_PROXY_FAILURES (an address in failed_proxies).
C3_FailedNeverSelected ==
    \A t \in Threads :
        (AtExit(t, "get_random_proxy") /\ ret[t] # <<>>)
            => ret[t][1].proxy \notin failed_proxies

\* C4: no address in failed_proxies is the address of a live entry.
C4_LiveDisjointFromFailed ==
    \A i \in DOMAIN proxies : proxies[i].proxy \notin failed_proxies

C6_MarkSuccessEffect ==
    \A t \in Threads :
        AtExit(t, "mark_success") =>
            LET ps == pre[t].proxies
            IN /\ Len(proxies) = Len(ps)
               /\ failed_proxies = pre[t].failed
               /\ \A i \in DOMAIN ps :
                    IF ps[i].proxy = arg[t]
                    THEN /\ proxies[i].proxy = ps[i].proxy
                         /\ proxies[i].last_used = ps[i].last_used
                         /\ proxies[i].success_count = ps[i].success_count + 1
                         /\ \/ ps[i].fail_count = 0 /\ proxies[i].fail_count = 0
                            \/ ps[i].fail_count > 0
                               /\ proxies[i].fail_count = ps[i].fail_count - 1
                    ELSE proxies[i] = ps[i]

\* C6 witness: a finished mark_success on a pool holding an entry of the
\* address with failures, an entry of the address without, or another address.
C6_Witness ==
    \E t \in Threads :
        /\ AtExit(t, "mark_success")
        /\ \E i, j \in DOMAIN pre[t].proxies :
             /\ pre[t].proxies[i].proxy = arg[t]
             /\ pre[t].proxies[i].fail_count > 0
             /\ pre[t].proxies[j].proxy # arg[t]

\* Every client has made all the calls of its script.
AllDone == \A t \in Threads : pc[t] = "idle" /\ script[t] = <<>>

HealThenFail(a) ==
    scenario.script[1] = <<<<"mark_success", a>>, <<"mark_failure", a>>>>

\* C7 as claimed: mark_success(a) followed by mark_failure(a) leaves every
\* fail_count of address a as it was, from every starting value.
C7_HealThenFailCancels ==
    \A a \in Addrs :
        (HealThenFail(a) /\ AllDone) =>
            \A i \in DOMAIN proxies :
                proxies[i].proxy = a => proxies[i].fail_count = scenario.pool[i].fail_count

\* C7 amended: mark_success(a) followed by mark_failure(a) leaves a
\* fail_count of at least 1 as it was, and turns a fail_count of 0 into 1.
C7_HealThenFailFromOne ==
    \A a \in Addrs :
        (HealThenFail(a) /\ AllDone) =>
            /\ Len(proxies) = Len(scenario.pool)
            /\ \A i \in DOMAIN proxies :
                 proxies[i].proxy = a =>
                    proxies[i].fail_count =
                        IF scenario.pool[i].fail_count = 0 THEN 1
                        ELSE scenario.pool[i].fail_count

\* C7 witness: the two calls done on an entry that had at least two failures.
C7_Witness ==
    \E a \in Addrs :
        /\ HealThenFail(a)
        /\ AllDone
        /\ \E i \in DOMAIN scenario.pool :
             scenario.pool[i].proxy = a /\ scenario.pool[i].fail_count >= 2

AllFail(a) == \A t \in Threads : scenario.script[t] = <<<<"mark_failure", a>>>>

\* C8: when every one of the NumThreads threads has called mark_failure(a)
\* once, concurrently, each fail_count of address a is NumThreads higher
\* than before and the other entries are as before.
C8_NoLostFailure ==
    \A a \in Addrs :
        (AllFail(a) /\ AllDone) =>
            /\ Len(proxies) = Len(scenario.pool)
            /\ \A i \in DOMAIN proxies :
                 IF proxies[i].proxy = a
                 THEN proxies[i].fail_count = scenario.pool[i].fail_count + NumThreads
                 ELSE proxies[i] = scenario.pool[i]

\* C8 witness: all the concurrent mark_failure calls done on a live address.
C8_Witness ==
    \E a \in Addrs :
        /\ AllFail(a)
        /\ AllDone
        /\ \E i \in DOMAIN scenario.pool : scenario.pool[i].proxy = a

\* Positions of the candidates refresh_proxies examined and took: not in
\* failed_proxies and accepted by validate_proxy.
Taken(t) ==
    SelectSeq([i \in 1 .. Len(probe[t]) |-> i],
              LAMBDA i : new_proxies[t][i] \notin failed_proxies /\ probe[t][i])

\* C9: when refresh_proxies returns, self.proxies is, in scrape order, the
\* candidates not in failed_proxies that validate_proxy accepted, each with
\* zero counts; it stopped short of the end of the scrape only with
\* PROXY_POOL_SIZE entries, never has more, and returns the pool's length.
C9_RefreshResult ==
    \A t \in Threads :
        pc[t] = "rf_return" =>
            /\ Len(proxies) = Len(Taken(t))
            /\ \A k \in DOMAIN proxies :
                 proxies[k] = Entry(new_proxies[t][Taken(t)[k]], 0, 0, NoTime)
            /\ Len(proxies) <= PROXY_POOL_SIZE
            /\ Len(probe[t]) < Len(new_proxies[t]) => Len(proxies) = PROXY_POOL_SIZE
            /\ ret[t] = <<Len(proxies)>>

\* C9 witness: a refresh that replaced a non-empty pool by a different one of
\* PROXY_POOL_SIZE entries, having passed over a permanently failed candidate.
C9_Witness ==
    \E t \in Threads :
        /\ pc[t] = "rf_return"
        /\ pre[t].proxies # <<>>
        /\ proxies # pre[t].proxies
        /\ Len(proxies) = PROXY_POOL_SIZE
        /\ \E i \in DOMAIN probe[t] : new_proxies[t][i] \in failed_proxies

\* C10: counting a requester's calls from its first, the first
\* RATE_LIMIT_VISITS_PER_MINUTE calls are allowed and the next one is denied
\* for the minute window.
C10_FirstCallsAllowedThenDenied ==
    \A t \in Threads :
        rl_pc[t] = "return" =>
            LET k == rl_calls[rl_user[t]]
            IN /\ k <= RATE_LIMIT_VISITS_PER_MINUTE => rl_ret[t][1]
               /\ k = RATE_LIMIT_VISITS_PER_MINUTE + 1 =>
                    rl_ret[t] = Denied("Minute", RATE_LIMIT_VISITS_PER_MINUTE,
                                       RATE_LIMIT_VISITS_PER_MINUTE)

\* C11: a requester whose hour and day counters are under their ceilings
\* is allowed once the minute window has elapsed since its counters were
\* last written: a denial is only issued within MinuteWindow of that write.
C11_MinuteWindowResets ==
    \A t \in Threads :
        (/\ rl_pc[t] = "return"
         /\ rl_row[t] # NoRow
         /\ rl_row[t].hour_count < RATE_LIMIT_VISITS_PER_HOUR
         /\ rl_row[t].day_count < RATE_LIMIT_VISITS_PER_DAY
         /\ rl_at[t] - rl_stamp[rl_user[t]] > MinuteWindow)
            => rl_ret[t][1]

\* C12: check_rate_limit checks and increments in one atomic step: the row
\* a call decided on is the stored row when it decides, an allowed call
\* found every counter under its ceiling and raised each by one, a denied
\* call wrote nothing, and no stored counter exceeds its ceiling.
C12_AtomicCheckAndIncrement ==
    /\ \A u \in Users :
         rate_limits[u] # NoRow =>
            /\ rate_limits[u].minute_count <= RATE_LIMIT_VISITS_PER_MINUTE
            /\ rate_limits[u].hour_count <= RATE_LIMIT_VISITS_PER_HOUR
            /\ rate_limits[u].day_count <= RATE_LIMIT_VISITS_PER_DAY
    /\ \A t \in Threads :
         (rl_pc[t] = "return" /\ rl_row[t] # NoRow) =>
            LET r == rl_row[t]
            IN IF rl_ret[t][1]
               THEN /\ r.minute_count < RATE_LIMIT_VISITS_PER_MINUTE
                    /\ rate_limits[rl_user[t]] =
                         Row(r.minute_count + 1, r.hour_count + 1, r.day_count + 1)
               ELSE rate_limits[rl_user[t]] = r

\* C12 witness: the call after the one that took the last free slot of the
\* minute counter: it finds the counter at its ceiling and is denied.
C12_Witness ==
    \E t \in Threads :
        /\ rl_pc[t] = "return"
        /\ ~rl_ret[t][1]
        /\ rl_row[t].minute_count = RATE_LIMIT_VISITS_PER_MINUTE
        /\ rl_stamp[rl_user[t]] # NoTime
        /\ rl_calls[rl_user[t]] = RATE_LIMIT_VISITS_PER_MINUTE + 2

\* C13: a denial names the first ceiling reached in the order minute, hour,
\* day, with that window's label, its count and its ceiling.
C13_FirstCeilingReported ==
    \A t \in Threads :
        (rl_pc[t] = "return" /\ rl_row[t] # NoRow) =>
            LET r == rl_row[t]
            IN IF r.minute_count >= RATE_LIMIT_VISITS_PER_MINUTE
               THEN rl_ret[t] = <<FALSE, "Minute", r.minute_count, RATE_LIMIT_VISITS_PER_MINUTE>>
               ELSE IF r.hour_count >= RATE_LIMIT_VISITS_PER_HOUR
               THEN rl_ret[t] = <<FALSE, "Hour", r.hour_count, RATE_LIMIT_VISITS_PER_HOUR>>
               ELSE IF r.day_count >= RATE_LIMIT_VISITS_PER_DAY
               THEN rl_ret[t] = <<FALSE, "Day", r.day_count, RATE_LIMIT_VISITS_PER_DAY>>
               ELSE rl_ret[t][1]

\* C13 witness: a denial of a requester with all three counters at or over
\* their ceilings.
C13_Witness ==
    \E t \in Threads :
        /\ rl_pc[t] = "return"
        /\ rl_row[t] # NoRow
        /\ rl_row[t].minute_count >= RATE_LIMIT_VISITS_PER_MINUTE
        /\ rl_row[t].hour_count >= RATE_LIMIT_VISITS_PER_HOUR
        /\ rl_row[t].day_count >= RATE_LIMIT_VISITS_PER_DAY

\* C14: a result simulate_views_batch returns has total = view_count,
\* successful + failed = view_count and one errors entry per failed task.
C14_BatchResultAddsUp ==
    b_pc = "returned" =>
        /\ results.total = b_count
        /\ results.successful + results.failed = b_count
        /\ Len(results.errors) = results.failed

\* C14 witness: a returned batch of two attempts that failed with the same
\* message, both kept in errors.
C14_Witness ==
    /\ b_pc = "returned"
    /\ results.failed = 2
    /\ results.errors[1] = results.errors[2]
    /\ b_sent = 2

\* C15: the batch deadline never makes simulate_views_batch raise: with
\* tasks outstanding at the deadline it still returns a result, in which
\* successful + failed = view_count.
C15_TimeoutCountedAsFailed ==
    /\ b_pc \notin {"unwind", "raised"}
    /\ b_pc = "returned" => results.successful + results.failed = b_count

\* C16: once the deadline has elapsed, simulate_views_batch goes back to
\* its caller without waiting for the tasks still running or queued.
C16_StopsWaitingAtDeadline ==
    b_pc = "unwind" => ENABLED BatchUnwound

\* C17: a batch whose every attempt succeeded, with view_count and
\* view_time within their configured ranges, returns successful =
\* view_count and failed = 0.
C17_AllSucceedAllCounted ==
    (/\ b_pc \in {"returned", "raised"}
     /\ \A i \in DOMAIN outcome : outcome[i] # <<>> /\ outcome[i][1])
        => /\ b_pc = "returned"
           /\ results.successful = b_count
           /\ results.failed = 0

\* A step of the batch or of a call one of its tasks is in.
BatchProgress == Instant \/ \E w \in Threads : CallStep(w)

\* C18: a batch for a resolvable target on an empty pool does not hang or
\* raise, and returns total = view_count, successful = 0, failed =
\* view_count, every error "No available proxies", with no request sent.
C18_EmptyPoolAllFailed ==
    (scenario.pool = <<>> /\ ExtractVideoId(b_url) # <<>>) =>
        /\ b_pc \in {"wait", "unwind"} => ENABLED BatchProgress
        /\ b_pc \notin {"unwind", "raised"}
        /\ b_pc = "returned" =>
             /\ results = Results(b_count, 0, b_count,
                                  [i \in 1 .. b_count |-> "No available proxies"])
             /\ b_sent = 0

\* C19: at most MAX_WORKERS tasks of a batch are running at any moment, and
\* the batch submitted exactly view_count tasks.
C19_BoundedWorkers ==
    /\ Cardinality({i \in DOMAIN futures : futures[i] = "running"}) <= MAX_WORKERS
    /\ Cardinality({w \in Threads : w_pc[w] # "free"}) <= MAX_WORKERS
    /\ b_pc # "idle" => Len(futures) = b_count

\* C19 witness: MAX_WORKERS tasks running while another waits in the queue.
C19_Witness ==
    /\ Cardinality({i \in DOMAIN futures : futures[i] = "running"}) = MAX_WORKERS
    /\ \E i \in DOMAIN futures : futures[i] = "queued"
    /\ \E w \in Threads : w_pc[w] = "request"

\* A target no pattern matches: no known prefix, or too few id characters.
Unresolvable(url) == url.form = "none" \/ url.idlen < VIDEO_ID_LEN

\* C20: simulate_view on a target without a resolvable video id returns
\* failure and leaves the pool alone: no call into the pool, no request,
\* live entries, failed set and last_validation as they were.
C20_BadTargetTouchesNothing ==
    (b_pc # "idle" /\ Unresolvable(b_url)) =>
        /\ proxies = scenario.pool
        /\ failed_proxies = {}
        /\ last_validation = 0
        /\ lock = NoThread
        /\ b_sent = 0
        /\ \A t \in Threads : op[t] = "none" /\ pc[t] = "idle" /\ script[t] = <<>>
        /\ \A i \in DOMAIN outcome :
             futures[i] = "done" => outcome[i] = <<FALSE, "Invalid YouTube URL">>

\* C20 witness: a batch of tasks on a watch URL whose id is one character
\* short, done on a pool that has entries.
C20_Witness ==
    /\ b_pc = "returned"
    /\ b_url = Url("watch", VIDEO_ID_LEN - 1)
    /\ b_count = MaxViews
    /\ proxies # <<>>

\* C21: simulate_views_batch with a target that fails resolution submits no
\* task to the worker pool and occupies no worker.
C21_BadTargetSubmitsNothing ==
    (b_pc # "idle" /\ Unresolvable(b_url)) =>
        /\ futures = <<>>
        /\ \A w \in Threads : w_pc[w] = "free"

\* C22: a result is handed to the caller only when every task is done and
\* counted and no worker runs one, and from then on the counts and the
\* errors list stay as they were at return.
C22_ReturnedResultFrozen ==
    /\ [](b_pc = "returned" =>
            /\ yielded = DOMAIN futures
            /\ \A i \in DOMAIN futures : futures[i] = "done"
            /\ \A w \in Threads : w_pc[w] = "free")
    /\ [][b_pc = "returned" => (b_pc' = "returned" /\ results' = results)]_vars

\* C22 witness: a returned result that counts a success, which slept through
\* its dwell, and a failure.
C22_Witness ==
    /\ b_pc = "returned"
    /\ results.successful >= 1
    /\ results.failed >= 1
    /\ b_clock >= 1

\* A step of startup().
StartupStep ==
    \/ Startup
    \/ RefreshProxies(1)
    \/ RfScrape(1)
    \/ RfValidate(1)
    \/ RfSwap(1)
    \/ RfReturn(1)

\* C23: when load_from_cache fails or loads zero entries, startup goes on
\* with an empty pool to refresh_proxies, which it can enter at once; until
\* startup has completed its next step can always be taken; and it completes
\* only on a loaded pool or on the return of that refresh.
C23_LoadFailureRefreshes ==
    /\ [](pc[1] = "startup_refresh" =>
            ~started /\ proxies = <<>> /\ ENABLED RefreshProxies(1))
    /\ [](~started => ENABLED StartupStep)
    /\ [][(~started /\ pc[1] = "idle" /\ proxies' = <<>>)
            => (~started' /\ pc'[1] = "startup_refresh")]_vars
    /\ [][(~started /\ started')
            => \/ pc[1] = "idle" /\ proxies' # <<>>
               \/ pc[1] = "rf_return" /\ caller[1] = "startup_refresh"]_vars

\* C23 witness: the refresh startup ran after a failed load is about to
\* return, having filled the pool.
C23_Witness ==
    /\ ~started
    /\ pc[1] = "rf_return"
    /\ caller[1] = "startup_refresh"
    /\ proxies # <<>>

\* C24: the LRUCache never stores more than max_size entries.
C24_SizeWithinMax == Size <= max_size

\* C24 witness: a set on a full cache, which evicted an entry.
C24_Witness ==
    /\ lru_op.name = "set"
    /\ lru_op.oldest # NoKey
    /\ Size = max_size

\* C25: an eviction is made by a set, of a key other than the one set, on a
\* cache it leaves full; the evicted key was last set or got before every key
\* that stays; and the keys stored are those set and not evicted, cleared or
\* expired since.
C25_EvictsLeastRecentlyUsed ==
    /\ lru_op.oldest # NoKey =>
         /\ lru_op.name = "set"
         /\ Size = max_size
         /\ lru_op.key \in KeysOf(lru_cache)
         /\ lru_op.oldest \notin KeysOf(lru_cache)
         /\ \A j \in KeysOf(lru_cache) :
              lru_seen[lru_op.oldest].used < lru_seen[j].used
    /\ KeysOf(lru_cache) =
         {k \in Keys : lru_seen[k].value # <<>> /\ lru_seen[k].gone = "no"}

\* C25 witness: the evicted key was set later than a key that stays, which
\* a get had made the more recently used.
C25_Witness ==
    /\ lru_op.oldest # NoKey
    /\ \E j \in KeysOf(lru_cache) :
         /\ lru_seen[j].at < lru_seen[lru_op.oldest].at
         /\ lru_seen[j].used > lru_seen[lru_op.oldest].used

\* C26: get(k) returns the value of the latest set(k, v) when the entry was
\* not evicted or cleared since and has not expired, and None for a key
\* never set, evicted or cleared; after clear() the size is 0.
C26_GetReturnsLatestSet ==
    /\ lru_op.name = "get" =>
         LET g == lru_seen[lru_op.key]
         IN /\ (g.value # <<>> /\ g.gone = "no" /\ lru_clock - g.at <= expiry_time)
                  => lru_op.ret = g.value
            /\ (g.value = <<>> \/ g.gone \in {"evicted", "cleared"})
                  => lru_op.ret = <<>>
    /\ lru_op.name = "clear" => Size = 0

\* C26 witness: a get that returns a value after another key was evicted.
C26_Witness ==
    /\ lru_op.name = "get"
    /\ lru_op.ret # <<>>
    /\ \E k \in Keys : lru_seen[k].gone = "evicted"

\* C27: every Config() returns, all of them return one object, and
\* load_from_file has run on it at most once, however the constructing
\* threads interleave.
C27_OneInstanceOneInit ==
    /\ \A t \in Threads : cfg_pc[t] # "raised"
    /\ \A t, u \in Threads :
         \A i \in DOMAIN cfg_got[t] : \A j \in DOMAIN cfg_got[u] :
            cfg_got[t][i] = cfg_got[u][j]
    /\ \A o \in Objects : cfg_loads[o] <= 1

\* C28: the pool refresh_proxies leaves holds no address twice.
C28_RefreshLeavesDistinct ==
    \A t \in Threads :
        pc[t] = "rf_return" =>
            \A i, j \in DOMAIN proxies : i # j => proxies[i].proxy # proxies[j].proxy

\* The fail_counts a pool records for address a.
FailCounts(ps, a) == {ps[i].fail_count : i \in {j \in DOMAIN ps : ps[j].proxy = a}}

\* C29: no step leaves an address with a fail_count below all those
\* recorded for it before the step, but a step of mark_success on that
\* address.
C29_FailCountNeverDrops ==
    [][\A a \in Addrs :
         (\E g \in FailCounts(proxies', a) :
             /\ FailCounts(proxies, a) # {}
             /\ \A f \in FailCounts(proxies, a) : g < f)
           => \E t \in Threads :
                op[t] = "mark_success" /\ arg[t] = a /\ idx'[t] # idx[t]]_vars

\* C30: after startup's refresh completed at time Epoch, get_random_proxy
\* goes into refresh_proxies only when the clock reads more than
\* PROXY_VALIDATION_INTERVAL past Epoch.
C30_NoRefreshWithinInterval ==
    \A t \in Threads :
        pc[t] = "grp_refresh" => now - Epoch > PROXY_VALIDATION_INTERVAL

\* Tasks whose request was sent: done with a result of the request, or
\* still reporting it or sleeping after it.
Requested ==
    Cardinality({i \in DOMAIN outcome :
                    /\ outcome[i] # <<>>
                    /\ outcome[i][2] \notin {"Invalid YouTube URL", "No available proxies"}})
    + Cardinality({w \in Threads : w_pc[w] \in {"mark", "dwell"}})

\* C31: one request per task that obtained a proxy and none for the others;
\* a worker calls mark_success or mark_failure only after its request, once,
\* with the address it selected and the kind its request's outcome asks for;
\* a task that is running is never queued again and one that is done stays
\* done.
C31_OneAttemptPerTask ==
    /\ [](b_sent = Requested)
    /\ [](\A w \in Threads :
            /\ w_pc[w] \in {"free", "request", "dwell"} => script[w] = <<>>
            /\ w_pc[w] = "select" =>
                 script[w] \in {<<>>, <<<<"get_random_proxy", NoAddr>>>>}
            /\ w_pc[w] = "mark" =>
                 script[w] \in {<<>>, <<<<IF w_res[w][1] THEN "mark_success"
                                          ELSE "mark_failure", w_proxy[w]>>>>})
    /\ [][\A w \in Threads :
            (op[w] = "none" /\ op'[w] \in {"mark_success", "mark_failure"}) =>
                /\ w_pc[w] = "mark"
                /\ arg'[w] = w_proxy[w]
                /\ op'[w] = IF w_res[w][1] THEN "mark_success" ELSE "mark_failure"
                /\ Len(script[w]) = 1
                /\ script'[w] = <<>>]_vars
    /\ [][\A i \in DOMAIN futures :
            b_pc # "idle" =>
                /\ futures[i] = "done" => futures'[i] = "done"
                /\ futures[i] = "running" => futures'[i] \in {"running", "done"}]_vars

\* C31 witness: a returned batch of two tasks, one request each, one
\* reported as a success and one as a failure.
C31_Witness ==
    /\ b_pc = "returned"
    /\ b_sent = 2
    /\ results.successful = 1
    /\ results.failed = 1

\* C32: every call that returns Allowed, the requester's first included,
\* leaves each of its three counters one higher than the call found it (a
\* requester without a row counting as zero).
C32_AllowedIncrementsAll ==
    \A t \in Threads :
        (rl_pc[t] = "return" /\ rl_ret[t][1]) =>
            LET r == IF rl_row[t] = NoRow THEN Row(0, 0, 0) ELSE rl_row[t]
            IN rate_limits[rl_user[t]] =
                 Row(r.minute_count + 1, r.hour_count + 1, r.day_count + 1)

\* C38: the step in which a call settles on Denied writes no row of the
\* table, and a denied call returns with its requester's row as it read it.
C38_DeniedWritesNothing ==
    /\ [][\A t \in Threads :
            (rl_pc[t] = "decide" /\ rl_pc'[t] = "return" /\ ~rl_ret'[t][1])
                => rate_limits' = rate_limits]_vars
    /\ [](\A t \in Threads :
            (rl_pc[t] = "return" /\ ~rl_ret[t][1]) =>
                rate_limits[rl_user[t]] = rl_row[t])

\* C38 witness: a denied call returns while another requester has counted
\* calls of its own.
C38_Witness ==
    \E t \in Threads :
        /\ rl_pc[t] = "return"
        /\ ~rl_ret[t][1]
        /\ \E u \in Users \ {rl_user[t]} :
             rate_limits[u] # NoRow /\ rate_limits[u].minute_count >= 1

\* C36: a get returns a value only within expiry_time of the key's latest
\* set; a get later than that returns None and leaves the key out of the
\* cache; and the timestamp kept for a stored key is that of its latest set.
C36_NoExpiredValue ==
    /\ lru_op.name = "get" =>
         LET g == lru_seen[lru_op.key]
         IN /\ lru_op.ret # <<>> => lru_clock - g.at <= expiry_time
            /\ (g.value # <<>> /\ lru_clock - g.at > expiry_time) =>
                 /\ lru_op.ret = <<>>
                 /\ lru_op.key \notin KeysOf(lru_cache)
    /\ \A k \in Keys :
         lru_seen[k].gone = "expired" =>
            k \notin KeysOf(lru_cache) /\ lru_timestamps[k] = NoTime
    /\ \A k \in KeysOf(lru_cache) : lru_timestamps[k] = lru_seen[k].at

\* C36 witness: a get that found its key expired and removed it, while a
\* key set again later is still stored.
C36_Witness ==
    /\ lru_op.name = "get"
    /\ lru_op.ret = <<>>
    /\ lru_seen[lru_op.key].gone = "expired"
    /\ \E k \in KeysOf(lru_cache) : lru_seen[k].at > lru_seen[lru_op.key].at

\* C33: validate_proxy returns True exactly when one of the probe endpoints
\* answers with status 200, an exception counting as a failed probe; it has
\* then sent the requests up to the first such endpoint and no more, all of
\* them when none succeeds; and the pool's proxies and failed set are as
\* they were.
C33_ValidateProxy ==
    vp_ret # <<>> =>
        LET ok == {i \in 1 .. NumProbes : vp_answers[i] = "200"}
        IN /\ vp_ret[1] <=> ok # {}
           /\ ok # {} => \A i \in ok : vp_sent <= i
           /\ ok # {} => vp_sent \in ok
           /\ ok = {} => vp_sent = NumProbes
           /\ proxies = scenario.pool
           /\ failed_proxies = {}

\* C33 witness: a validation that returned True on its last endpoint after
\* an exception and a non-200 response, for a pool that has proxies.
C33_Witness ==
    /\ vp_ret = <<TRUE>>
    /\ vp_answers = <<"error", "404", "200">>
    /\ vp_sent = NumProbes
    /\ proxies # <<>>

\* C34: a call of the wrapper of retry_on_failure(max_retries = R) invokes
\* func at most R + 1 times; when it returns, it returns the result of the
\* first invocation that did not raise and that was the last invocation
\* made; when R + 1 invocations all raised, it raises the exception of the
\* last of them.
C34_RetryOnFailure ==
    LET R == rt_in.max_retries
        raises == rt_in.raises
    IN /\ rt_calls <= R + 1
       /\ rt_pc = "done" =>
            /\ rt_ret[1] = "returned" =>
                 /\ raises[rt_ret[2]] = "returns"
                 /\ \A j \in 1 .. rt_ret[2] - 1 : raises[j] # "returns"
                 /\ rt_calls = rt_ret[2]
            /\ \A i \in 1 .. R + 1 :
                 (raises[i] = "returns" /\ \A j \in 1 .. i - 1 : raises[j] = "Exception")
                    => rt_ret = <<"returned", i>>
            /\ (\A i \in 1 .. R + 1 : raises[i] # "returns") =>
                 /\ rt_ret[1] = "raised"
                 /\ rt_calls = R + 1 => rt_ret[2] = R + 1
            /\ (\A i \in 1 .. R + 1 : raises[i] = "Exception") =>
                 rt_ret = <<"raised", R + 1>> /\ rt_calls = R + 1

\* C34 witness: with the largest max_retries, a call that returned the
\* result of its last permitted invocation after every earlier one raised,
\* the delay having grown by the backoff each time.
C34_Witness ==
    /\ rt_pc = "done"
    /\ rt_in.max_retries = MaxRetries
    /\ rt_in.backoff = MaxBackoff
    /\ rt_ret = <<"returned", MaxRetries + 1>>
    /\ rt_delay > 1

\* C35: of the starts of a function wrapped with rate_limit(calls, period),
\* at most calls fall into any window of length period.
C35_AtMostCallsPerWindow ==
    \A s \in 0 .. MaxLimitTime :
        Cardinality({i \in DOMAIN rd_starts :
                        s <= rd_starts[i] /\ rd_starts[i] < s + period}) <= calls

\* C37: every user's stored list has at most max_notifications entries, and
\* they are the latest notifications sent to the user since the list was
\* last cleared, in the order in which they were sent.
C37_LatestInSendOrder ==
    \A u \in Users :
        LET ns == nm_notifications[u]
            sent == nm_sent[u]
            k == IF Len(sent) < max_notifications THEN Len(sent)
                 ELSE max_notifications
        IN /\ Len(ns) <= max_notifications
           /\ Len(ns) = k
           /\ \A i \in 1 .. k : ns[i].serial = sent[Len(sent) - k + i]

\* C37 witness: a user who was sent more than max_notifications
\* notifications after a clear, and has read one of those still stored.
C37_Witness ==
    \E u \in Users :
        /\ Len(nm_sent[u]) > max_notifications
        /\ nm_sent[u][1] > 1
        /\ Len(nm_notifications[u]) = max_notifications
        /\ \E i \in DOMAIN nm_notifications[u] : nm_notifications[u][i].read

\* C39: the ids of the notifications stored for a user are pairwise
\* distinct.
C39_DistinctIds ==
    \A u \in Users :
        \A i, j \in DOMAIN nm_notifications[u] :
            nm_notifications[u][i].id = nm_notifications[u][j].id => i = j

\* C40, first part: a registered task's callback is not started before its
\* interval has passed since add_task registered it.
C40_NotBeforeInterval ==
    \A id \in TaskIds :
        (ts_tasks[id] # NoTask /\ ts_runs[id] # <<>>) =>
            ts_runs[id][1] >= ts_reg[id] + ts_tasks[id].interval

\* C40, last part: the callback of a task that is not registered is not
\* started.
C40_RemovedNeverStarted ==
    [][\A id \in TaskIds :
          ts_tasks[id] = NoTask => ts_runs'[id] = ts_runs[id] \/ ts_tasks'[id] # NoTask]_vars

\* C40: a registered task's callback is not started before its interval
\* has passed since registration, and at least its interval passes between
\* any two consecutive starts of it.
C40_StartsSpaced ==
    /\ C40_NotBeforeInterval
    /\ \A id \in TaskIds :
          ts_tasks[id] # NoTask =>
             \A i \in 2 .. Len(ts_runs[id]) :
                ts_runs[id][i] - ts_runs[id][i - 1] >= ts_tasks[id].interval

====
